---- MODULE Spec2Model ----
(***************************************************************************)
(* Webhook-driven order relay (TradingView -> OANDA).  The repository is a *)
(* collection of variants of one Express handler.  Each variant is         *)
(* modelled as a state machine of its own over a shared broker model:      *)
(*                                                                         *)
(*   Spec        src/unnamed/part_004  gated LIMIT handler, same-side      *)
(*                                     cooldown (lastEntryTime/            *)
(*                                     lastEntrySide)                      *)
(*   SpecEntries the same, with the history of the placed entries kept     *)
(*   SpecGated   part_004 or the first handler of src/unnamed/part_003     *)
(*               (gated LIMIT handler, cooldown after a close)             *)
(*   SpecMarket  src/server.js:363-424, the market-order handler (no gate, *)
(*               per-side cooldown lastOrderTime)                          *)
(*   SpecExits   part_004, with the history of the exits kept              *)
(*   SpecOrders  part_004, with the failed cancels kept and two orders     *)
(*               allowed to rest                                           *)
(*   SpecGatedLive  SpecGated with every broker call returning in the end  *)
(*   SpecCloseByOrder  src/server.js:16-71 and src/unnamed/part_001:198-298,*)
(*               whose exits close by a market order of their own          *)
(*   SpecZlsma   src/unnamed/part_005 and part_008 (exits that name a side)*)
(*   SpecZone    src/unnamed/part_003:337-372, the ungated zone handler    *)
(*   SpecWire    the order builders of src/server.js taken alone           *)
(*   SpecLimit   src/server.js:187-244, the limit-only handler (no gate,   *)
(*               per-symbol lastOrderTime and lastEntryTime)               *)
(*                                                                         *)
(* A webhook request occupies a slot r of Reqs.  Node runs one handler     *)
(* continuation at a time, so everything a handler does between two        *)
(* awaits is one atomic action; every await of a broker call is a state    *)
(* (run[r].pc) in which other requests, the clock and the broker itself    *)
(* may move.  The broker's answer to a call is chosen nondeterministically *)
(* among the outcomes the HTTP call can have.                              *)
(***************************************************************************)
EXTENDS Integers, Sequences, FiniteSets, TLC

VARIABLES
    now,            \* Date.now(), in ms
    processing,     \* part_003/part_004: the gate
    lastEntryTime,  \* part_004; server.js (limit-only handler): per symbol
    lastEntrySide,  \* part_004
    position,       \* broker: net units per instrument (netting account)
    pending,        \* broker: resting orders, a set of [id, instrument, units]
    run,            \* per request slot: where the handler is and its locals
    variant,        \* which file of the repository is running
    observing,      \* which history is kept: "nothing", "entries" (placed),
                    \* "exits" (closed) or "orders" (failed cancels, in calls)
    lastCloseTime,  \* part_003
    lastOrderTime,  \* server.js: per side (market-order handler) or per
                    \* symbol (limit-only handler)
    calls,          \* history: broker calls issued by the request in flight (and
                    \* the answer to its close order, when that carried no fill)
    resp,           \* history: the HTTP response sent by the last step, if any
    placed,         \* history: per side, the last entry whose placeLimit returned
    lastPlacedSide, \* history: the side of the last entry whose placeLimit returned
    closed,         \* history: the last close order of a ZONE_EXIT, while nothing
                    \* else has moved the account since
    wire            \* the order builders taken alone: the arguments of a call
                    \* and the order body it put on the wire

vars == <<now, processing, lastEntryTime, lastEntrySide, position, pending,
          run, variant, observing, lastCloseTime, lastOrderTime, calls, resp, placed,
          lastPlacedSide, closed, wire>>


----------------------------------------------------------------------------
(* Bounds of the model *)

NReq == 2            \* request slots: webhooks that can be in flight together
MaxTicks == 2        \* the clock runs from StartTime to StartTime + MaxTicks * TickMs
TickMs == 4000       \* clock granularity
StartTime == 100000  \* Date.now() when the process starts
MaxPending == 1      \* orders that can rest at the broker at one time
MaxLots == 1         \* |net position| <= MaxLots * FIXED_UNITS
PayloadUnits == 5000 \* a units value a payload may carry

(* Constants of src/unnamed/part_004 *)

FIXED_UNITS == 25000
COOLDOWN_MS == 8000
POST_CLOSE_WAIT == 3000

(* Constants of src/unnamed/part_003 (COOLDOWN_MS and POST_CLOSE_WAIT are  *)
(* the same there) and of the market-order handler of src/server.js        *)

FIXED_UNITS_part_003 == 20000
FIXED_UNITS_market == 20000
ORDER_COOLDOWN_MS_market == 60000

(* Constants of the first handler of src/server.js and of the second       *)
(* handler of src/unnamed/part_001                                         *)

FIXED_UNITS_simple == 20000
FIXED_UNITS_part_001 == 20000
ORDER_COOLDOWN_MS_part_001 == 60000

(* The default order size of src/unnamed/part_005 and src/unnamed/part_008 *)

FIXED_UNITS_part_005 == 20000

(* The order size of the second handler of src/unnamed/part_003 *)

FIXED_UNITS_zone == 20000

(* The order size of the limit-only handler of src/server.js *)

FIXED_UNITS_limit == 20000

(* The cooldowns of the limit-only handler of src/server.js *)

ORDER_COOLDOWN_MS_limit == 30000
EXIT_COOLDOWN_MS == 3000

(* Prices are integers, in millionths of the quote currency.                *)
(* MIN_SLTP_PIPS of src/server.js:271, which is 0.01, in millionths:         *)

MIN_SLTP_PIPS == 10000

Reqs == 1..NReq
MaxTime == StartTime + MaxTicks * TickMs
Symbols == {"USD_JPY", "EUR_USD"}
NoSymbol == "none"
Sides == {"LONG", "SHORT"}
NULL == "null"
Alerts == {"ZONE_EXIT", "LONG_LIMIT", "SHORT_LIMIT", "EXIT", "CLOSE_ALL",
           "LONG_EXIT_ZLSMA", "SHORT_EXIT_ZLSMA"}

(* An inbound webhook body after the alert_message unwrapping: parses is   *)
(* FALSE when alert_message is not JSON (JSON.parse throws).               *)
Payloads ==
    [alert : {"ZONE_EXIT", "LONG_LIMIT", "SHORT_LIMIT"}, symbol : Symbols, parses : {TRUE}]
    \cup [alert : Alerts, symbol : {"USD_JPY"}, parses : {TRUE}]
    \cup [alert : {"ZONE_EXIT", "LONG_LIMIT"}, symbol : {NoSymbol}, parses : {TRUE}]
    \cup {[alert |-> "ZONE_EXIT", symbol |-> NoSymbol, parses |-> FALSE]}

\* no order builder is looked at on its own
NoWire == [fn |-> "none"]

Max(a, b) == IF a >= b THEN a ELSE b
Min(a, b) == IF a <= b THEN a ELSE b

----------------------------------------------------------------------------
(* The broker's HTTP answers.  A response is [status, json, body]: json is *)
(* FALSE when the text is not JSON; body is the parsed object.             *)

EmptyObj == [k \in {} |-> 0]

\* GET openPositions, 200: only instruments with an open position are listed
OpenPositionsBody ==
    [positions |-> { [instrument |-> s,
                      long  |-> Max(position[s], 0),
                      short |-> Min(position[s], 0)] : s \in {x \in Symbols : position[x] # 0} }]

\* the answers a read can get: the listing, an error object, or text that is no JSON
ReadAnswers(okBody) ==
    { [status |-> 200, json |-> TRUE,  body |-> okBody],
      [status |-> 503, json |-> TRUE,  body |-> [errorMessage |-> "unavailable"]],
      [status |-> 502, json |-> FALSE, body |-> EmptyObj] }

\* GET pendingOrders, 200: the resting orders, listed in an order of the
\* venue's choosing
PendingOrdersBody ==
    {[orders |-> q] : q \in {l \in [1..Cardinality(pending) -> pending] :
                               \A i, j \in DOMAIN l : i # j => l[i] # l[j]}}

\* src/unnamed/part_004:33-39  try { return JSON.parse(text) } catch { return {} }
fetchJSON(res) == IF res.json THEN res.body ELSE EmptyObj

\* src/unnamed/part_004:42-55
PosNull == [null |-> TRUE, long |-> 0, short |-> 0]

\* Mutant of getPosition: the instrument is not compared
getPositionAny(r, symbol) ==
    LET list == IF "positions" \in DOMAIN r THEN r.positions ELSE {}
    IN  IF list = {} THEN PosNull
        ELSE LET pos == CHOOSE p \in list : TRUE
             IN  [null |-> FALSE, long |-> pos.long, short |-> pos.short]

getPosition(r, symbol) ==
    LET list == IF "positions" \in DOMAIN r THEN r.positions ELSE {}
        found == {p \in list : p.instrument = symbol}
    IN  IF found = {} THEN PosNull
        ELSE LET pos == CHOOSE p \in found : TRUE
             IN  [null |-> FALSE, long |-> pos.long, short |-> pos.short]

\* Mutant of unitsToCloseOf: the sign of the open units is kept
unitsToCloseKept(pos) ==
    LET u1 == IF pos.long > 0 THEN pos.long ELSE 0
    IN  IF pos.short < 0 THEN pos.short ELSE u1

\* src/unnamed/part_004:66-71
unitsToCloseOf(pos) ==
    LET u1 == IF pos.long > 0 THEN 0 - pos.long ELSE 0
    IN  IF pos.short < 0 THEN 0 - pos.short ELSE u1

\* the orders the venue lets rest at one time: one more when the history of
\* the orders is kept, so that two orders of one symbol can rest
PendingCap == IF observing = "orders" THEN MaxPending + 1 ELSE MaxPending

\* history of the orders: a call of cancelAll that was answered, but not
\* with a 2xx, is noted among the calls of the request
CallFailed == "not 2xx"
Noted(c, failed) == IF observing = "orders" /\ failed THEN Append(c, CallFailed) ELSE c

\* Mutant of cancelTargets: the orders of the other symbols are taken
cancelTargetsOthers(r, symbol) ==
    LET list == IF "orders" \in DOMAIN r THEN r.orders ELSE <<>>
        Kept(o) == o.instrument # symbol
        kept == SelectSeq(list, Kept)
    IN  [i \in 1..Len(kept) |-> kept[i].id]

\* src/unnamed/part_004:109-116: the ids cancelAll will cancel, in listing order
cancelTargets(r, symbol) ==
    LET list == IF "orders" \in DOMAIN r THEN r.orders ELSE <<>>
        Kept(o) == o.instrument = symbol
        kept == SelectSeq(list, Kept)
    IN  [i \in 1..Len(kept) |-> kept[i].id]

\* Mutant of cooldownActive: the side of the entry is not looked at
cooldownAnySide(side) ==
    IF lastEntrySide = NULL THEN FALSE
    ELSE now - lastEntryTime < COOLDOWN_MS

\* src/unnamed/part_004:145-149
cooldownActive(side) ==
    IF lastEntrySide = NULL THEN FALSE
    ELSE IF side # lastEntrySide THEN FALSE
    ELSE now - lastEntryTime < COOLDOWN_MS

\* Mutant of sideOf: the side is looked for inside the alert
sideOfIncludes(alert) ==
    IF alert \in {"LONG_LIMIT", "LONG_EXIT_ZLSMA"} THEN "LONG"
    ELSE IF alert \in {"SHORT_LIMIT", "SHORT_EXIT_ZLSMA"} THEN "SHORT" ELSE NULL

\* src/unnamed/part_004:204-206
sideOf(alert) ==
    IF alert = "LONG_LIMIT" THEN "LONG"
    ELSE IF alert = "SHORT_LIMIT" THEN "SHORT" ELSE NULL

\* src/unnamed/part_004:210
unitsOf(side) == IF side = "LONG" THEN FIXED_UNITS ELSE 0 - FIXED_UNITS

\* src/unnamed/part_004:225-228
isReversal(pos, side) ==
    /\ ~pos.null
    /\ \/ (side = "LONG" /\ pos.short < 0)
       \/ (side = "SHORT" /\ pos.long > 0)

----------------------------------------------------------------------------
(* Handler plumbing *)

\* a request slot: pc is the await the handler is suspended at; alert,
\* symbol, side, pos, todo (cancelAll's remaining orders), units
\* (closeAllSafe's unitsToClose) and wake (sleep's deadline) are the handler's
\* locals; rev (the reversal branch was taken) and read (how the entry's
\* position read was answered) are history
Idle == [pc |-> "idle", alert |-> "", symbol |-> NoSymbol, side |-> NULL,
         pos |-> PosNull, todo |-> <<>>, units |-> 0, wake |-> 0,
         rev |-> FALSE, read |-> "none"]

InFlight == {r \in Reqs : run[r].pc # "idle"}

\* history of the entries: placed[side] is the time and the symbol of the
\* last entry of that side whose placeLimit returned since the last
\* successful exit.  An entry is forgotten once it is COOLDOWN_MS old.
NoTime == 0 - 1
NotPlaced == [t |-> NoTime, symbol |-> NoSymbol]
NothingPlaced == [sd \in Sides |-> NotPlaced]
NotePlaced(side, symbol) ==
    IF observing = "entries" THEN [placed EXCEPT ![side] = [t |-> now, symbol |-> symbol]] ELSE placed
Forget(t) ==
    [sd \in Sides |-> IF placed[sd].t # NoTime /\ t - placed[sd].t >= COOLDOWN_MS
                      THEN NotPlaced ELSE placed[sd]]

NoResp == [status |-> 0, body |-> "none", why |-> "none", calls |-> <<>>]

\* res.json(...) / res.status(500).json(...): the request ends; c is the
\* history of the broker calls of this request
Respond(r, c, status, body, why) ==
    /\ run' = [run EXCEPT ![r] = Idle]
    /\ resp' = [status |-> status, body |-> body, why |-> why, calls |-> c]
    /\ calls' = <<>>

\* the handler issues broker call `call` and suspends at `pc`
Await(r, rec, c, pc, call) ==
    /\ run' = [run EXCEPT ![r] = [rec EXCEPT !.pc = pc]]
    /\ calls' = Append(c, call)
    /\ resp' = NoResp

\* Mutant of Finally: the gate is not given back
FinallyForgotten(r) == processing' = processing

\* src/unnamed/part_004:263-265  finally { processing = false }
Finally(r) ==
    processing' = IF run'[r].pc = "idle" THEN FALSE ELSE processing

\* src/unnamed/part_004:258-262  catch (err) { res.status(500).json({error: true}) }
Catch(r, c) == Respond(r, c, 500, "error", "exception")

\* a response sent before the first await, to payload p
Reply(r, p, status, body, why) ==
    /\ run' = [run EXCEPT ![r] = Idle]
    /\ resp' = [status |-> status, body |-> body, why |-> why, calls |-> <<>>]
    /\ calls' = <<>>

\* history of the exits: closed.symbol is the symbol for which a ZONE_EXIT
\* sent its close order, closed.filled whether that order was filled; it is
\* forgotten when a resting order or a stop fills and when any other signal
\* than a ZONE_EXIT for that symbol is processed
NoClose == [symbol |-> NoSymbol, filled |-> FALSE]
CloseSent(r) ==
    IF observing = "exits" /\ run[r].alert = "ZONE_EXIT"
    THEN [symbol |-> run[r].symbol, filled |-> FALSE] ELSE closed
CloseFilled(r) ==
    IF run[r].alert = "ZONE_EXIT" /\ closed.symbol = run[r].symbol
    THEN [closed EXCEPT !.filled = TRUE] ELSE closed
SameExit(p) == p.parses /\ p.alert = "ZONE_EXIT" /\ p.symbol = closed.symbol

\* what no step of a handler touches
clock == <<now, variant, observing, wire>>
env == <<clock, closed>>

----------------------------------------------------------------------------
(* src/unnamed/part_004: the gated LIMIT handler *)

\* placeLimit(...) is called: src/unnamed/part_004:243-249
CallPlaceLimit(r, rec, c) == Await(r, rec, c, "place", "POST limit")

\* await sleep(POST_CLOSE_WAIT): src/unnamed/part_004:193 and :237
StartSleep(r, rec, c) ==
    /\ run' = [run EXCEPT ![r] = [rec EXCEPT !.pc = "sleep", !.wake = now + POST_CLOSE_WAIT]]
    /\ calls' = c
    /\ resp' = NoResp

\* closeAllSafe(symbol) begins with getPosition: src/unnamed/part_004:58-60
CallCloseAllSafe(r, rec, c) == Await(r, rec, c, "close_read", "GET openPositions")

\* Mutant of AfterCloseAllSafe: a close that failed is tried again
AfterCloseAllSafeRetried(r, rec, c, success) ==
    IF success THEN StartSleep(r, rec, c) ELSE CallCloseAllSafe(r, rec, c)

\* Mutant of AfterCloseAllSafe: the result of closeAllSafe is ignored
AfterCloseAllSafeIgnored(r, rec, c, success) == StartSleep(r, rec, c)

\* closeAllSafe returned `success`: src/unnamed/part_004:188-193 and :232-237
AfterCloseAllSafe(r, rec, c, success) ==
    IF ~success THEN Respond(r, c, 500, "close failed", "close failed")
    ELSE StartSleep(r, rec, c)

\* cancelAll returned: src/unnamed/part_004:186-188 (exit) and :218-220 (entry)
AfterCancelAll(r, rec, c) ==
    IF rec.alert = "ZONE_EXIT" THEN CallCloseAllSafe(r, rec, c)
    ELSE Await(r, rec, c, "entry_read", "GET openPositions")

\* the loop of cancelAll over the matching orders: src/unnamed/part_004:109-116
CancelLoop(r, rec, c) ==
    IF rec.todo = <<>> THEN AfterCancelAll(r, rec, c)
    ELSE Await(r, rec, c, "cancel_put", "PUT cancel")

\* the handler from the try block to its first await: src/unnamed/part_004:161-218
Handle(r, p) ==
    LET rec == [Idle EXCEPT !.alert = p.alert, !.symbol = p.symbol,
                            !.side = sideOf(p.alert)]
    IN  IF ~p.parses THEN Reply(r, p, 500, "error", "exception")
        ELSE IF p.symbol = NoSymbol THEN Reply(r, p, 200, "skipped", "no symbol")
        ELSE IF p.alert = "ZONE_EXIT"
             THEN Await(r, rec, <<>>, "cancel_list", "GET pendingOrders")
        ELSE IF rec.side = NULL THEN Reply(r, p, 200, "skipped", "unknown alert")
        ELSE IF cooldownActive(rec.side) THEN Reply(r, p, 200, "skipped", "cooldown")
        ELSE Await(r, rec, <<>>, "cancel_list", "GET pendingOrders")

\* Mutants of the gate: the test of processing is missing; the flag is never set
GateOpen(r, p) ==
    /\ Handle(r, p)
    /\ processing' = (run'[r].pc # "idle")
GateNeverSet(r, p) ==
    IF processing
    THEN /\ resp' = [status |-> 200, body |-> "skipped", why |-> "busy", calls |-> <<>>]
         /\ UNCHANGED <<run, processing, calls>>
    ELSE /\ Handle(r, p)
         /\ processing' = FALSE

\* the gate: src/unnamed/part_004:154-159
Gate(r, p) ==
    IF processing
    THEN /\ resp' = [status |-> 200, body |-> "skipped", why |-> "busy", calls |-> <<>>]
         /\ UNCHANGED <<run, processing, calls>>
    ELSE /\ Handle(r, p)
         /\ processing' = (run'[r].pc # "idle")

\* a webhook is delivered: app.post("/webhook"), src/unnamed/part_004:152-266
Arrive(r, p) ==
    /\ variant = "part_004"
    /\ run[r].pc = "idle"
    /\ \A q \in Reqs : q < r => run[q].pc # "idle"    \* slots are taken in order
    /\ Gate(r, p)
    /\ closed' = IF processing \/ SameExit(p) THEN closed ELSE NoClose
    /\ UNCHANGED <<clock, lastEntryTime, lastEntrySide, position, pending, lastCloseTime,
                   lastOrderTime, placed, lastPlacedSide>>

\* cancelAll: the answer to GET pendingOrders, src/unnamed/part_004:104-109
PendingOrdersAnswer(r) ==
    /\ run[r].pc = "cancel_list"
    /\ \/ \E body \in PendingOrdersBody : \E res \in ReadAnswers(body) :
            CancelLoop(r, [run[r] EXCEPT !.todo = cancelTargets(fetchJSON(res), run[r].symbol)],
                       Noted(calls, res.status # 200))
       \/ Catch(r, calls)     \* fetch rejects
    /\ Finally(r)
    /\ UNCHANGED <<env, lastEntryTime, lastEntrySide, position, pending, lastCloseTime,
                   lastOrderTime, placed, lastPlacedSide>>

\* cancelAll: the answer to PUT orders/{id}/cancel, src/unnamed/part_004:111-114.
\* The response is not looked at.
CancelAnswer(r) ==
    /\ run[r].pc = "cancel_put"
    /\ LET id == Head(run[r].todo)
           rec == [run[r] EXCEPT !.todo = Tail(run[r].todo)]
           cancelled == {o \in pending : o.id # id}
       IN  \/ /\ pending' = cancelled         \* 200, or 404 when it is gone already
              /\ CancelLoop(r, rec, calls)
           \/ /\ pending' = pending           \* non-2xx: not cancelled
              /\ CancelLoop(r, rec, Noted(calls, TRUE))
           \/ /\ pending' = pending           \* fetch rejects, request never arrived
              /\ Catch(r, calls)
           \/ /\ pending' = cancelled         \* fetch rejects, the answer was lost
              /\ Catch(r, calls)
    /\ Finally(r)
    /\ UNCHANGED <<env, lastEntryTime, lastEntrySide, position, lastCloseTime,
                   lastOrderTime, placed, lastPlacedSide>>

\* closeAllSafe: the answer to its position read, src/unnamed/part_004:60-90
CloseReadAnswer(r) ==
    /\ run[r].pc = "close_read"
    /\ \/ \E res \in ReadAnswers(OpenPositionsBody) :
            LET pos == getPosition(fetchJSON(res), run[r].symbol)
            IN  IF pos.null THEN AfterCloseAllSafe(r, run[r], calls, TRUE)
                ELSE IF unitsToCloseOf(pos) = 0 THEN AfterCloseAllSafe(r, run[r], calls, TRUE)
                ELSE Await(r, [run[r] EXCEPT !.units = unitsToCloseOf(pos)], calls,
                           "close_post", "POST market")
       \/ Catch(r, calls)
    /\ Finally(r)
    /\ closed' = IF run'[r].pc = "close_post" THEN CloseSent(r) ELSE closed
    /\ UNCHANGED <<clock, lastEntryTime, lastEntrySide, position, pending, lastCloseTime,
                   lastOrderTime, placed, lastPlacedSide>>

\* history mark: the close order was answered without an orderFillTransaction
NoFill == "no orderFillTransaction"

\* the broker fills a market order of `units` on symbol
Filled(symbol, units) == [position EXCEPT ![symbol] = @ + units]
CanFill(symbol, units) ==
    LET n == position[symbol] + units
    IN  n <= MaxLots * FIXED_UNITS /\ 0 - n <= MaxLots * FIXED_UNITS

\* closeAllSafe: the answer to the FOK market order, src/unnamed/part_004:83-98
ClosePostAnswer(r) ==
    /\ run[r].pc = "close_post"
    /\ LET s == run[r].symbol
           u == run[r].units
       IN  \/ /\ CanFill(s, u)                   \* 201 with orderFillTransaction
              /\ position' = Filled(s, u)
              /\ closed' = CloseFilled(r)
              /\ AfterCloseAllSafe(r, run[r], calls, TRUE)
           \/ /\ position' = position            \* killed or rejected: no fill
              /\ closed' = closed
              /\ AfterCloseAllSafe(r, run[r], Append(calls, NoFill), FALSE)
           \/ /\ position' = position            \* fetch rejects
              /\ closed' = closed
              /\ Catch(r, calls)
           \/ /\ CanFill(s, u)                   \* filled, the answer was lost
              /\ position' = Filled(s, u)
              /\ closed' = CloseFilled(r)
              /\ Catch(r, calls)
    /\ Finally(r)
    /\ UNCHANGED <<clock, lastEntryTime, lastEntrySide, pending, lastCloseTime,
                   lastOrderTime, placed, lastPlacedSide>>

\* the entry's own position read: src/unnamed/part_004:220-238
EntryReadAnswer(r) ==
    /\ variant = "part_004"
    /\ run[r].pc = "entry_read"
    /\ \/ \E res \in ReadAnswers(OpenPositionsBody) :
            LET pos == getPosition(fetchJSON(res), run[r].symbol)
                rec == [run[r] EXCEPT !.pos = pos,
                                      !.read = IF res.status = 200 THEN "ok" ELSE "failed"]
            IN  IF isReversal(pos, run[r].side)
                THEN CallCloseAllSafe(r, [rec EXCEPT !.rev = TRUE], calls)
                ELSE CallPlaceLimit(r, rec, calls)
       \/ Catch(r, calls)
    /\ Finally(r)
    /\ UNCHANGED <<env, lastEntryTime, lastEntrySide, position, pending, lastCloseTime,
                   lastOrderTime, placed, lastPlacedSide>>

\* Mutant of SleepDone: the exit leaves lastEntrySide as it is
SleepDoneKeepsSide(r) ==
    /\ variant = "part_004"
    /\ run[r].pc = "sleep"
    /\ now >= run[r].wake
    /\ IF run[r].alert = "ZONE_EXIT"
       THEN /\ lastEntrySide' = lastEntrySide
            /\ placed' = NothingPlaced
            /\ lastPlacedSide' = NULL
            /\ Respond(r, calls, 200, "ok", "exit")
       ELSE /\ UNCHANGED <<lastEntrySide, placed, lastPlacedSide>>
            /\ CallPlaceLimit(r, run[r], calls)
    /\ Finally(r)
    /\ UNCHANGED <<env, lastEntryTime, position, pending, lastCloseTime, lastOrderTime>>

\* the timer of sleep(POST_CLOSE_WAIT) fires: src/unnamed/part_004:193-198, :237-249
SleepDone(r) ==
    /\ variant = "part_004"
    /\ run[r].pc = "sleep"
    /\ now >= run[r].wake
    /\ IF run[r].alert = "ZONE_EXIT"
       THEN /\ lastEntrySide' = NULL
            /\ placed' = NothingPlaced
            /\ lastPlacedSide' = NULL
            /\ Respond(r, calls, 200, "ok", "exit")
       ELSE /\ UNCHANGED <<lastEntrySide, placed, lastPlacedSide>>
            /\ CallPlaceLimit(r, run[r], calls)
    /\ Finally(r)
    /\ UNCHANGED <<env, lastEntryTime, position, pending, lastCloseTime, lastOrderTime>>

\* order ids are opaque: the broker hands out the smallest id that no
\* resting order has and no cancelAll in flight still holds
RECURSIVE SeqToSet(_)
SeqToSet(q) == IF q = <<>> THEN {} ELSE {Head(q)} \cup SeqToSet(Tail(q))
UsedIds == {o.id : o \in pending} \cup UNION {SeqToSet(run[q].todo) : q \in Reqs}
FreshId == CHOOSE i \in 1..(Cardinality(UsedIds) + 1) : i \notin UsedIds
NewOrder(symbol, units) == [id |-> FreshId, instrument |-> symbol, units |-> units]

\* Mutant of Placed: the side is written, the time is not
PlacedSideOnly(r) ==
    /\ lastEntryTime' = lastEntryTime
    /\ lastEntrySide' = run[r].side
    /\ placed' = NotePlaced(run[r].side, run[r].symbol)
    /\ lastPlacedSide' = run[r].side
    /\ Respond(r, calls, 200, "ok", "entry")

\* src/unnamed/part_004:251-256: the handler's tail after placeLimit returned
Placed(r) ==
    /\ lastEntryTime' = now
    /\ lastEntrySide' = run[r].side
    /\ placed' = NotePlaced(run[r].side, run[r].symbol)
    /\ lastPlacedSide' = run[r].side
    /\ Respond(r, calls, 200, "ok", "entry")

\* placeLimit's answer: src/unnamed/part_004:120-141, :243-256.
\* The answer's content is not looked at.
PlaceAnswer(r) ==
    /\ variant = "part_004"
    /\ run[r].pc = "place"
    /\ LET created == pending \cup {NewOrder(run[r].symbol, unitsOf(run[r].side))}
       IN  \/ /\ Cardinality(pending) < PendingCap   \* 201: the order rests
              /\ pending' = created
              /\ Placed(r)
           \/ /\ pending' = pending                  \* non-2xx: rejected, no order
              /\ Placed(r)
           \/ /\ pending' = pending                  \* fetch rejects
              /\ UNCHANGED <<lastEntryTime, lastEntrySide, placed, lastPlacedSide>>
              /\ Catch(r, calls)
           \/ /\ Cardinality(pending) < PendingCap   \* created, the answer was lost
              /\ pending' = created
              /\ UNCHANGED <<lastEntryTime, lastEntrySide, placed, lastPlacedSide>>
              /\ Catch(r, calls)
    /\ Finally(r)
    /\ UNCHANGED <<env, position, lastCloseTime, lastOrderTime>>

----------------------------------------------------------------------------
(* src/unnamed/part_003, first handler: the gated LIMIT handler whose      *)
(* cooldown runs from the last close.  cancelAll and closeAllSafe are the  *)
(* text of part_004's, so their steps are the actions above.               *)

\* Mutant of cooldownSince: no cooldown at the instant of the close itself
cooldownAfter(last) == 0 < now - last /\ now - last < COOLDOWN_MS

\* src/unnamed/part_003:144-146, with lastCloseTime's value as parameter
cooldownSince(last) == now - last < COOLDOWN_MS
\* Mutant of cooldownActive_part_003: the comparison is turned round
cooldownTurned_part_003 == now - lastCloseTime > COOLDOWN_MS

cooldownActive_part_003 == cooldownSince(lastCloseTime)

\* req.body of the first handler of part_003: as part_004's, and it may carry
\* a units value (0: none), which the handler does not read: src/unnamed/part_003:161-173
Payloads_part_003 ==
    { [alert |-> p.alert, symbol |-> p.symbol, parses |-> p.parses, units |-> u] :
        p \in Payloads, u \in {0, PayloadUnits} }

\* Mutant of unitsOf_part_003: the sign of the short side is lost
unitsOfUnsigned_part_003(alert) ==
    IF alert \in {"LONG_LIMIT", "SHORT_LIMIT"} THEN FIXED_UNITS_part_003 ELSE 0

\* src/unnamed/part_003:200-202
unitsOf_part_003(alert) ==
    IF alert = "LONG_LIMIT" THEN FIXED_UNITS_part_003
    ELSE IF alert = "SHORT_LIMIT" THEN 0 - FIXED_UNITS_part_003 ELSE 0

\* the handler from the try block to its first await: src/unnamed/part_003:158-211
Handle_part_003(r, p) ==
    LET rec == [Idle EXCEPT !.alert = p.alert, !.symbol = p.symbol,
                            !.side = sideOf(p.alert)]
    IN  IF ~p.parses THEN Reply(r, p, 500, "error", "exception")
        ELSE IF p.symbol = NoSymbol THEN Reply(r, p, 200, "skipped", "no symbol")
        ELSE IF p.alert = "ZONE_EXIT"
             THEN Await(r, rec, <<>>, "cancel_list", "GET pendingOrders")
        ELSE IF unitsOf_part_003(p.alert) = 0
             THEN Reply(r, p, 200, "skipped", "unknown alert")
        ELSE IF cooldownActive_part_003 THEN Reply(r, p, 200, "skipped", "cooldown")
        ELSE Await(r, rec, <<>>, "cancel_list", "GET pendingOrders")

\* the gate: src/unnamed/part_003:151-156
Gate_part_003(r, p) ==
    IF processing
    THEN /\ resp' = [status |-> 200, body |-> "skipped", why |-> "busy", calls |-> <<>>]
         /\ UNCHANGED <<run, processing, calls>>
    ELSE /\ Handle_part_003(r, p)
         /\ processing' = (run'[r].pc # "idle")

\* a webhook is delivered: app.post("/webhook"), src/unnamed/part_003:149-254
Arrive_part_003(r, p) ==
    /\ variant = "part_003"
    /\ run[r].pc = "idle"
    /\ \A q \in Reqs : q < r => run[q].pc # "idle"
    /\ Gate_part_003(r, p)
    /\ UNCHANGED <<env, lastEntryTime, lastEntrySide, position, pending, lastCloseTime,
                   lastOrderTime, placed, lastPlacedSide>>

\* src/unnamed/part_003:229-240: the second cooldown check, then placeLimit
PlaceUnlessCooldown(r, rec, c, last) ==
    IF cooldownSince(last) THEN Respond(r, c, 200, "skipped", "cooldown after close")
    ELSE CallPlaceLimit(r, rec, c)

\* the entry's own position read: src/unnamed/part_003:213-232
EntryReadAnswer_part_003(r) ==
    /\ variant = "part_003"
    /\ run[r].pc = "entry_read"
    /\ \/ \E res \in ReadAnswers(OpenPositionsBody) :
            LET pos == getPosition(fetchJSON(res), run[r].symbol)
                rec == [run[r] EXCEPT !.pos = pos,
                                      !.read = IF res.status = 200 THEN "ok" ELSE "failed"]
            IN  IF ~pos.null /\ (pos.long # 0 \/ pos.short # 0)
                THEN CallCloseAllSafe(r, [rec EXCEPT !.rev = TRUE], calls)
                ELSE PlaceUnlessCooldown(r, rec, calls, lastCloseTime)
       \/ Catch(r, calls)
    /\ Finally(r)
    /\ UNCHANGED <<env, lastEntryTime, lastEntrySide, position, pending, lastCloseTime,
                   lastOrderTime, placed, lastPlacedSide>>

\* Mutant of SleepDone_part_003: lastCloseTime is recorded only when a close
\* order was sent
SleepDoneIfClosed_part_003(r) ==
    /\ variant = "part_003"
    /\ run[r].pc = "sleep"
    /\ now >= run[r].wake
    /\ lastCloseTime' = IF \E i \in 1..Len(calls) : calls[i] = "POST market"
                        THEN now ELSE lastCloseTime
    /\ IF run[r].alert = "ZONE_EXIT"
       THEN Respond(r, calls, 200, "ok", "exit")
       ELSE PlaceUnlessCooldown(r, run[r], calls, now)
    /\ Finally(r)
    /\ UNCHANGED <<env, lastEntryTime, lastEntrySide, position, pending, lastOrderTime,
                   placed, lastPlacedSide>>

\* the timer of sleep(POST_CLOSE_WAIT) fires: src/unnamed/part_003:191-194, :225-232
SleepDone_part_003(r) ==
    /\ variant = "part_003"
    /\ run[r].pc = "sleep"
    /\ now >= run[r].wake
    /\ lastCloseTime' = now
    /\ IF run[r].alert = "ZONE_EXIT"
       THEN Respond(r, calls, 200, "ok", "exit")
       ELSE PlaceUnlessCooldown(r, run[r], calls, now)
    /\ Finally(r)
    /\ UNCHANGED <<env, lastEntryTime, lastEntrySide, position, pending, lastOrderTime,
                   placed, lastPlacedSide>>

\* placeLimit's answer: src/unnamed/part_003:121-142, :234-244.
\* The answer's content is not looked at.
PlaceAnswer_part_003(r) ==
    /\ variant = "part_003"
    /\ run[r].pc = "place"
    /\ LET created == pending \cup {NewOrder(run[r].symbol, unitsOf_part_003(run[r].alert))}
       IN  \/ /\ Cardinality(pending) < PendingCap   \* 201: the order rests
              /\ pending' = created
              /\ Respond(r, calls, 200, "ok", "entry")
           \/ /\ pending' = pending                  \* non-2xx: rejected, no order
              /\ Respond(r, calls, 200, "ok", "entry")
           \/ /\ pending' = pending                  \* fetch rejects
              /\ Catch(r, calls)
           \/ /\ Cardinality(pending) < PendingCap   \* created, the answer was lost
              /\ pending' = created
              /\ Catch(r, calls)
    /\ Finally(r)
    /\ UNCHANGED <<env, lastEntryTime, lastEntrySide, position, lastCloseTime,
                   lastOrderTime, placed, lastPlacedSide>>

----------------------------------------------------------------------------
(* src/server.js:250-427: the market-order handler.  It has no gate: every *)
(* delivered webhook runs, and the runs interleave at their awaits.        *)

AlertsMarket == {"LONG", "SHORT", "LONG_EXIT_ZLSMA", "CLOSE_ALL", "PING", ""}

\* req.body of the market-order handler
PayloadsMarket ==
    [alert : AlertsMarket, symbol : {"USD_JPY"}]
    \cup [alert : {"LONG"}, symbol : {"EUR_USD", NoSymbol}]

\* alert.includes(word), for the alerts above
includes(alert, word) ==
    \/ alert = word
    \/ alert = "LONG_EXIT_ZLSMA" /\ word \in {"LONG", "EXIT"}

\* src/server.js:283-291: the body, or a throw when the text is not JSON
fetchJSON_market(res) == [threw |-> ~res.json, data |-> res.body]

\* src/server.js:293-297, with the units of :389-390 (absent position: 0)
getOpenPositionForInstrument(data, instrument) == getPosition(data, instrument)

\* src/server.js:379
sideOf_market(alert) ==
    IF includes(alert, "LONG") THEN "LONG"
    ELSE IF includes(alert, "SHORT") THEN "SHORT" ELSE NULL

\* src/server.js:383
cooldown_market(side, t) == t - lastOrderTime[side] < ORDER_COOLDOWN_MS_market

\* src/server.js:391
netUnitsOf(pos) == pos.long - pos.short

\* src/server.js:392
wantUnitsOf(side) == IF side = "LONG" THEN FIXED_UNITS_market ELSE 0 - FIXED_UNITS_market

\* src/server.js:394
positionExists(side, netUnits) ==
    (side = "LONG" /\ netUnits > 0) \/ (side = "SHORT" /\ netUnits < 0)

\* res.status(...).json(...) of the market-order handler
Respond_market(r, status, message) ==
    /\ run' = [run EXCEPT ![r] = Idle]
    /\ resp' = [status |-> status, body |-> message, why |-> message, calls |-> <<>>]

Await_market(r, rec, pc) ==
    /\ run' = [run EXCEPT ![r] = [rec EXCEPT !.pc = pc]]
    /\ resp' = NoResp

\* a webhook is delivered: src/server.js:363-388; wake holds the local `now`
Arrive_market(r, p) ==
    /\ variant = "server.js"
    /\ run[r].pc = "idle"
    /\ \A q \in Reqs : q < r => run[q].pc # "idle"
    /\ LET side == sideOf_market(p.alert)
           rec == [Idle EXCEPT !.alert = p.alert, !.symbol = p.symbol, !.side = side,
                               !.wake = now]
       IN  IF p.alert = "" \/ p.symbol = NoSymbol
           THEN Respond_market(r, 400, "invalid payload")
           ELSE IF p.symbol # "USD_JPY"
           THEN Respond_market(r, 400, "unsupported symbol")
           ELSE IF includes(p.alert, "EXIT") \/ p.alert = "CLOSE_ALL"
           THEN Await_market(r, rec, "market_close_read")
           ELSE IF side = NULL THEN Respond_market(r, 400, "unknown alert side")
           ELSE IF cooldown_market(side, now)
           THEN Respond_market(r, 200, "cooldown")
           ELSE Await_market(r, rec, "market_read")
    /\ UNCHANGED <<env, processing, calls, lastEntryTime, lastEntrySide, position, pending,
                   lastCloseTime, lastOrderTime, placed, lastPlacedSide>>

\* the answer to the entry's position read: src/server.js:388-403
GetOpenPositionAnswer(r) ==
    /\ variant = "server.js"
    /\ run[r].pc = "market_read"
    /\ \/ \E res \in ReadAnswers(OpenPositionsBody) :
            LET got == fetchJSON_market(res)
                pos == getOpenPositionForInstrument(got.data, run[r].symbol)
                rec == [run[r] EXCEPT !.pos = pos,
                                      !.read = IF res.status = 200 THEN "ok" ELSE "failed"]
            IN  IF got.threw THEN Respond_market(r, 500, "error")
                ELSE IF positionExists(run[r].side, netUnitsOf(pos))
                THEN Respond_market(r, 200, "position exists")
                ELSE Await_market(r, rec, "market_place")
       \/ Respond_market(r, 500, "error")      \* fetch rejects
    /\ UNCHANGED <<env, processing, calls, lastEntryTime, lastEntrySide, position, pending,
                   lastCloseTime, lastOrderTime, placed, lastPlacedSide>>

\* placeMarketOrder's answer: src/server.js:334-360, :403-418.
\* positionFill REDUCE_FIRST on a netting account: the units add to the net position.
PlaceMarketOrderAnswer(r) ==
    /\ variant = "server.js"
    /\ run[r].pc = "market_place"
    /\ LET s == run[r].symbol
           u == wantUnitsOf(run[r].side)
           stamped == [lastOrderTime EXCEPT ![run[r].side] = run[r].wake]
       IN  \/ /\ CanFill(s, u)                   \* 201 with orderFillTransaction
              /\ position' = Filled(s, u)
              /\ lastOrderTime' = stamped
              /\ Respond_market(r, 200, "order_placed")
           \/ /\ position' = position            \* rejected or cancelled: JSON without a fill
              /\ lastOrderTime' = stamped
              /\ Respond_market(r, 200, "order_placed")
           \/ /\ position' = position            \* fetch rejects, or the text is not JSON
              /\ lastOrderTime' = lastOrderTime
              /\ Respond_market(r, 500, "error")
           \/ /\ CanFill(s, u)                   \* filled, the answer was lost
              /\ position' = Filled(s, u)
              /\ lastOrderTime' = lastOrderTime
              /\ Respond_market(r, 500, "error")
    /\ UNCHANGED <<env, processing, calls, lastEntryTime, lastEntrySide, pending,
                   lastCloseTime, placed, lastPlacedSide>>

\* closePositionAll: the answer to its position read, src/server.js:300-314, :373-375
ClosePositionAllRead(r) ==
    /\ variant = "server.js"
    /\ run[r].pc = "market_close_read"
    /\ \/ \E res \in ReadAnswers(OpenPositionsBody) :
            LET got == fetchJSON_market(res)
                pos == getOpenPositionForInstrument(got.data, run[r].symbol)
            IN  IF got.threw THEN Respond_market(r, 500, "error")
                ELSE IF pos.null THEN Respond_market(r, 200, "closed")
                ELSE Await_market(r, [run[r] EXCEPT !.pos = pos], "market_close_put")
       \/ Respond_market(r, 500, "error")      \* fetch rejects
    /\ UNCHANGED <<env, processing, calls, lastEntryTime, lastEntrySide, position, pending,
                   lastCloseTime, lastOrderTime, placed, lastPlacedSide>>

\* closePositionAll: the answer to PUT positions/{instrument}/close,
\* src/server.js:314-331, :375.  Every outcome, a caught exception too, is
\* answered 200 "closed".  longUnits/shortUnits ALL close the side that is
\* open when the request arrives.
ClosePositionAllAnswer(r) ==
    /\ variant = "server.js"
    /\ run[r].pc = "market_close_put"
    /\ LET s == run[r].symbol
           closes == (run[r].pos.long > 0 /\ position[s] > 0)
                     \/ (run[r].pos.short < 0 /\ position[s] < 0)
       IN  \/ /\ closes                          \* 200: the side is closed
              /\ position' = [position EXCEPT ![s] = 0]
           \/ position' = position               \* non-2xx, or fetch rejects
    /\ Respond_market(r, 200, "closed")
    /\ UNCHANGED <<env, processing, calls, lastEntryTime, lastEntrySide, pending,
                   lastCloseTime, lastOrderTime, placed, lastPlacedSide>>

----------------------------------------------------------------------------
(* src/server.js:1-73 (the first handler) and src/unnamed/part_001:178-304 *)
(* (the second handler): market orders with positionFill DEFAULT, the exit *)
(* closing by a market order of its own.  Neither has a gate.              *)

\* what these two handlers never touch
untouched == <<env, processing, calls, lastEntryTime, lastEntrySide, pending,
               lastCloseTime, placed, lastPlacedSide>>

\* src/server.js:32 and src/unnamed/part_001:223-225
closeUnitsOf(pos) == pos.long - pos.short

\* posData.positions?.find(...), with the units read through `?.units || 0`:
\* src/server.js:29-30, src/unnamed/part_001:210-211
findPosition(data, instrument) == getPosition(data, instrument)

\* src/server.js:45-46: everything without LONG in it sells
unitsOf_simple(alert) ==
    IF includes(alert, "LONG") THEN FIXED_UNITS_simple ELSE 0 - FIXED_UNITS_simple

\* a webhook is delivered to the first handler of server.js: src/server.js:16-59
Arrive_simple(r, p) ==
    /\ variant = "server.js:16"
    /\ run[r].pc = "idle"
    /\ \A q \in Reqs : q < r => run[q].pc # "idle"
    /\ LET rec == [Idle EXCEPT !.alert = p.alert, !.symbol = p.symbol]
       IN  IF p.alert = "" \/ p.symbol = NoSymbol
           THEN Respond_market(r, 400, "Invalid payload")
           ELSE IF includes(p.alert, "EXIT") THEN Await_market(r, rec, "exit_read")
           ELSE Await_market(r, [rec EXCEPT !.units = unitsOf_simple(p.alert)], "entry_post")
    /\ UNCHANGED <<untouched, position, lastOrderTime>>

\* the exit's position read is answered: src/server.js:26-40,
\* src/unnamed/part_001:220-243 (there the read is the one of :206-211)
ExitReadAnswer(r) ==
    /\ variant \in {"server.js:16", "part_001:198"}
    /\ run[r].pc = "exit_read"
    /\ \/ \E res \in ReadAnswers(OpenPositionsBody) :
            LET pos == findPosition(res.body, run[r].symbol)
                closeUnits == closeUnitsOf(pos)
            IN  IF ~res.json THEN Respond_market(r, 500, "Server error")
                ELSE IF pos.null \/ closeUnits = 0
                THEN Respond_market(r, 200, "Position closed")
                ELSE Await_market(r, [run[r] EXCEPT !.pos = pos, !.units = 0 - closeUnits],
                                  "exit_post")
       \/ Respond_market(r, 500, "Server error")              \* fetch rejects
    /\ UNCHANGED <<untouched, position, lastOrderTime>>

\* the exit's market order is answered: src/server.js:34-41,
\* src/unnamed/part_001:228-243.  The answer is not looked at.
ExitPostAnswer(r) ==
    /\ variant \in {"server.js:16", "part_001:198"}
    /\ run[r].pc = "exit_post"
    /\ LET s == run[r].symbol
           u == run[r].units
       IN  \/ /\ CanFill(s, u)                   \* filled
              /\ position' = Filled(s, u)
              /\ Respond_market(r, 200, "Position closed")
           \/ /\ position' = position            \* rejected
              /\ Respond_market(r, 200, "Position closed")
           \/ /\ position' = position            \* fetch rejects
              /\ Respond_market(r, 500, "Server error")
           \/ /\ CanFill(s, u)                   \* filled, the answer was lost
              /\ position' = Filled(s, u)
              /\ Respond_market(r, 500, "Server error")
    /\ UNCHANGED <<untouched, lastOrderTime>>

\* the entry's market order is answered: src/server.js:59-65
EntryPostAnswer_simple(r) ==
    /\ variant = "server.js:16"
    /\ run[r].pc = "entry_post"
    /\ LET s == run[r].symbol
           u == run[r].units
       IN  \/ /\ CanFill(s, u)                   \* filled
              /\ position' = Filled(s, u)
              /\ Respond_market(r, 200, "Order executed")
           \/ /\ position' = position            \* rejected, JSON error body
              /\ Respond_market(r, 200, "Order executed")
           \/ /\ position' = position            \* fetch rejects, or the body is no JSON
              /\ Respond_market(r, 500, "Server error")
           \/ /\ CanFill(s, u)                   \* filled, the answer was lost
              /\ position' = Filled(s, u)
              /\ Respond_market(r, 500, "Server error")
    /\ UNCHANGED <<untouched, lastOrderTime>>

\* src/unnamed/part_001:246-247
sideOf_part_001(alert) == IF includes(alert, "LONG") THEN "LONG" ELSE "SHORT"

\* src/unnamed/part_001:257-259
exists_part_001(pos, side) ==
    (side = "LONG" /\ pos.long > 0) \/ (side = "SHORT" /\ pos.short > 0)

\* a webhook is delivered to the second handler of part_001:
\* src/unnamed/part_001:198-208
Arrive_part_001(r, p) ==
    /\ variant = "part_001:198"
    /\ run[r].pc = "idle"
    /\ \A q \in Reqs : q < r => run[q].pc # "idle"
    /\ LET rec == [Idle EXCEPT !.alert = p.alert, !.symbol = p.symbol]
       IN  IF p.alert = "" \/ p.symbol # "USD_JPY"
           THEN Respond_market(r, 400, "Invalid or unsupported payload")
           ELSE IF includes(p.alert, "EXIT") THEN Await_market(r, rec, "exit_read")
           ELSE Await_market(r, rec, "entry_read")
    /\ UNCHANGED <<untouched, position, lastOrderTime>>

\* the entry's position read is answered: src/unnamed/part_001:206-283;
\* wake holds the local `now`
EntryReadAnswer_part_001(r) ==
    /\ variant = "part_001:198"
    /\ run[r].pc = "entry_read"
    /\ \/ \E res \in ReadAnswers(OpenPositionsBody) :
            LET pos == findPosition(res.body, run[r].symbol)
                side == sideOf_part_001(run[r].alert)
                rec == [run[r] EXCEPT !.pos = pos, !.side = side, !.wake = now,
                                      !.units = IF side = "LONG" THEN FIXED_UNITS_part_001
                                                ELSE 0 - FIXED_UNITS_part_001]
            IN  IF ~res.json THEN Respond_market(r, 500, "Server error")
                ELSE IF now - lastOrderTime[side] < ORDER_COOLDOWN_MS_part_001
                THEN Respond_market(r, 200, "Order skipped (cooldown)")
                ELSE IF exists_part_001(pos, side)
                THEN Respond_market(r, 200, "Order skipped (position exists)")
                ELSE Await_market(r, rec, "entry_post")
       \/ Respond_market(r, 500, "Server error")              \* fetch rejects
    /\ UNCHANGED <<untouched, position, lastOrderTime>>

\* the entry's market order is answered: src/unnamed/part_001:276-294
EntryPostAnswer_part_001(r) ==
    /\ variant = "part_001:198"
    /\ run[r].pc = "entry_post"
    /\ LET s == run[r].symbol
           u == run[r].units
           stamped == [lastOrderTime EXCEPT ![run[r].side] = run[r].wake]
       IN  \/ /\ CanFill(s, u)                   \* filled
              /\ position' = Filled(s, u)
              /\ lastOrderTime' = stamped
              /\ Respond_market(r, 200, "Order executed")
           \/ /\ position' = position            \* created and cancelled: JSON with
              /\ lastOrderTime' = stamped          \* neither a fill nor an errorMessage
              /\ Respond_market(r, 200, "Order executed")
           \/ /\ position' = position            \* rejected with an errorMessage
              /\ lastOrderTime' = lastOrderTime
              /\ Respond_market(r, 400, "Order failed")
           \/ /\ position' = position            \* fetch rejects, or the body is no JSON
              /\ lastOrderTime' = lastOrderTime
              /\ Respond_market(r, 500, "Server error")
           \/ /\ CanFill(s, u)                   \* filled, the answer was lost
              /\ position' = Filled(s, u)
              /\ lastOrderTime' = lastOrderTime
              /\ Respond_market(r, 500, "Server error")
    /\ UNCHANGED untouched

----------------------------------------------------------------------------
(* src/unnamed/part_005:24-105 and src/unnamed/part_008:124-216: market    *)
(* entries with the stop-loss and the take-profit attached, and exits that *)
(* name a direction.  Neither has a gate or a cooldown.                    *)

AlertsZlsma == {"LONG_ENTRY", "SHORT_ENTRY", "LONG_EXIT_ZLSMA", "SHORT_EXIT_ZLSMA", "PING", ""}

\* req.body of these handlers: units is 0 when the payload has none, sl and
\* tp tell whether stopLossPrice and takeProfitPrice are there (as numbers)
PayloadsZlsma ==
    [alert : AlertsZlsma, symbol : {"USD_JPY"}, units : {0}, sl : {TRUE}, tp : {TRUE}]
    \cup [alert : {"LONG_ENTRY", "SHORT_ENTRY"}, symbol : {"USD_JPY"},
          units : {0, PayloadUnits}, sl : BOOLEAN, tp : BOOLEAN]
    \cup [alert : {"LONG_EXIT_ZLSMA"}, symbol : {"EUR_USD", NoSymbol},
          units : {0}, sl : {TRUE}, tp : {TRUE}]

\* src/unnamed/part_005:35-36, src/unnamed/part_008:135-136
orderUnitsOf(alert, units) ==
    IF units # 0 THEN units
    ELSE IF alert = "LONG_ENTRY" THEN FIXED_UNITS_part_005 ELSE 0 - FIXED_UNITS_part_005

\* building the order throws (toFixed of undefined): src/unnamed/part_005:43-44,
\* src/unnamed/part_008:139-150, where a missing takeProfitPrice is computed
orderThrows(p) ==
    IF variant = "part_005" THEN ~p.sl \/ ~p.tp ELSE ~p.sl

\* src/unnamed/part_005:71-73, src/unnamed/part_008:182-184
closeUnitsOf_part_005(alert, pos) ==
    IF alert = "LONG_EXIT_ZLSMA" THEN 0 - pos.long ELSE 0 - pos.short

\* a webhook is delivered: src/unnamed/part_005:24-64,100,
\* src/unnamed/part_008:124-175,211
Arrive_part_005(r, p) ==
    /\ variant \in {"part_005", "part_008"}
    /\ run[r].pc = "idle"
    /\ \A q \in Reqs : q < r => run[q].pc # "idle"
    /\ LET rec == [Idle EXCEPT !.alert = p.alert, !.symbol = p.symbol]
       IN  IF p.alert = "" \/ p.symbol = NoSymbol
           THEN Respond_market(r, 400, "Invalid payload")
           ELSE IF p.alert \in {"LONG_ENTRY", "SHORT_ENTRY"}
           THEN IF orderThrows(p) THEN Respond_market(r, 500, "Server error")
                ELSE Await_market(r, [rec EXCEPT !.units = orderUnitsOf(p.alert, p.units)],
                                  "entry_post")
           ELSE IF p.alert \in {"LONG_EXIT_ZLSMA", "SHORT_EXIT_ZLSMA"}
           THEN Await_market(r, rec, "exit_read")
           ELSE Respond_market(r, 200, "No action executed")
    /\ UNCHANGED <<untouched, position, lastOrderTime>>

\* the entry's market order is answered: src/unnamed/part_005:49-59,
\* src/unnamed/part_008:155-166.  The answer is not looked at.
EntryPostAnswer_part_005(r) ==
    /\ variant \in {"part_005", "part_008"}
    /\ run[r].pc = "entry_post"
    /\ LET s == run[r].symbol
           u == run[r].units
       IN  \/ /\ CanFill(s, u)                   \* filled
              /\ position' = Filled(s, u)
              /\ Respond_market(r, 200, "Order executed")
           \/ /\ position' = position            \* rejected, JSON error body
              /\ Respond_market(r, 200, "Order executed")
           \/ /\ position' = position            \* fetch rejects, or the body is no JSON
              /\ Respond_market(r, 500, "Server error")
           \/ /\ CanFill(s, u)                   \* filled, the answer was lost
              /\ position' = Filled(s, u)
              /\ Respond_market(r, 500, "Server error")
    /\ UNCHANGED <<untouched, lastOrderTime>>

\* the exit's position read is answered: src/unnamed/part_005:64-86,
\* src/unnamed/part_008:173-197.  posData.positions.find throws when the
\* body has no positions.
ExitReadAnswer_part_005(r) ==
    /\ variant \in {"part_005", "part_008"}
    /\ run[r].pc = "exit_read"
    /\ \/ \E res \in ReadAnswers(OpenPositionsBody) :
            LET pos == findPosition(res.body, run[r].symbol)
                closeUnits == closeUnitsOf_part_005(run[r].alert, pos)
            IN  IF ~res.json \/ "positions" \notin DOMAIN res.body
                THEN Respond_market(r, 500, "Server error")
                ELSE IF pos.null
                THEN Respond_market(r, 200, IF variant = "part_008"
                                            THEN "No open position to close"
                                            ELSE "No open position")
                ELSE IF closeUnits = 0 THEN Respond_market(r, 200, "No units to close")
                ELSE Await_market(r, [run[r] EXCEPT !.pos = pos, !.units = closeUnits],
                                  "exit_post")
       \/ Respond_market(r, 500, "Server error")              \* fetch rejects
    /\ UNCHANGED <<untouched, position, lastOrderTime>>

\* the exit's market order is answered: src/unnamed/part_005:86-97,
\* src/unnamed/part_008:197-208.  The answer is not looked at.
ExitPostAnswer_part_005(r) ==
    /\ variant \in {"part_005", "part_008"}
    /\ run[r].pc = "exit_post"
    /\ LET s == run[r].symbol
           u == run[r].units
       IN  \/ /\ CanFill(s, u)                   \* filled
              /\ position' = Filled(s, u)
              /\ Respond_market(r, 200, "Position closed")
           \/ /\ position' = position            \* rejected
              /\ Respond_market(r, 200, "Position closed")
           \/ /\ position' = position            \* fetch rejects, or the body is no JSON
              /\ Respond_market(r, 500, "Server error")
           \/ /\ CanFill(s, u)                   \* filled, the answer was lost
              /\ position' = Filled(s, u)
              /\ Respond_market(r, 500, "Server error")
    /\ UNCHANGED <<untouched, lastOrderTime>>

----------------------------------------------------------------------------
(* src/unnamed/part_003:337-372, the second handler: no gate, no cooldown, *)
(* no try/catch.  Every signal cancels the pending orders of the symbol    *)
(* and closes its position through PUT positions/{symbol}/close; an entry  *)
(* then places its LIMIT order (positionFill is left to the default).      *)

\* src/unnamed/part_003:354-356
unitsOf_zone(alert) ==
    IF alert = "LONG_LIMIT" THEN FIXED_UNITS_zone
    ELSE IF alert = "SHORT_LIMIT" THEN 0 - FIXED_UNITS_zone ELSE 0

\* the promise of the async handler rejects: nothing in the handler catches
\* it.  What the client sees depends on the express that is installed: no
\* response at all (status 0; express 4 does not look at the promise), or
\* the 500 of the default error handler (express 5).  The slot is given
\* back in both cases.
Escape(r) ==
    /\ run' = [run EXCEPT ![r] = Idle]
    /\ \E status \in {0, 500} :
          resp' = [status |-> status, body |-> "none", why |-> "escaped", calls |-> <<>>]

\* a webhook is delivered: src/unnamed/part_003:337-360
Arrive_zone(r, p) ==
    /\ variant = "part_003:337"
    /\ run[r].pc = "idle"
    /\ \A q \in Reqs : q < r => run[q].pc # "idle"
    /\ LET rec == [Idle EXCEPT !.alert = p.alert, !.symbol = p.symbol,
                               !.units = unitsOf_zone(p.alert)]
       IN  IF ~p.parses THEN Escape(r)                       \* JSON.parse throws
           ELSE IF p.alert = "ZONE_EXIT" \/ rec.units # 0
           THEN Await_market(r, rec, "zone_list")
           ELSE Respond_market(r, 200, "skipped")
    /\ UNCHANGED <<untouched, position, lastOrderTime>>

\* cancelAll's loop, then closeAll: src/unnamed/part_003:305-312, :349, :361
CancelLoop_zone(r, rec) ==
    IF rec.todo = <<>> THEN Await_market(r, rec, "zone_close")
    ELSE Await_market(r, rec, "zone_cancel")

\* cancelAll: the answer to GET pendingOrders, src/unnamed/part_003:300-305
PendingOrdersAnswer_zone(r) ==
    /\ variant = "part_003:337"
    /\ run[r].pc = "zone_list"
    /\ \/ \E body \in PendingOrdersBody : \E res \in ReadAnswers(body) :
            CancelLoop_zone(r, [run[r] EXCEPT
                                  !.todo = cancelTargets(fetchJSON(res), run[r].symbol)])
       \/ Escape(r)           \* fetch rejects
    /\ UNCHANGED <<untouched, position, lastOrderTime>>

\* cancelAll: the answer to PUT orders/{id}/cancel, src/unnamed/part_003:306-311
CancelAnswer_zone(r) ==
    /\ variant = "part_003:337"
    /\ run[r].pc = "zone_cancel"
    /\ LET id == Head(run[r].todo)
           rec == [run[r] EXCEPT !.todo = Tail(run[r].todo)]
           cancelled == {o \in pending : o.id # id}
       IN  \/ /\ pending' = cancelled         \* 200, or 404 when it is gone already
              /\ CancelLoop_zone(r, rec)
           \/ /\ pending' = pending           \* non-2xx: not cancelled
              /\ CancelLoop_zone(r, rec)
           \/ /\ pending' = pending           \* fetch rejects, request never arrived
              /\ Escape(r)
           \/ /\ pending' = cancelled         \* fetch rejects, the answer was lost
              /\ Escape(r)
    /\ UNCHANGED <<env, processing, calls, lastEntryTime, lastEntrySide, lastCloseTime,
                   placed, lastPlacedSide, position, lastOrderTime>>

\* closeAll returned: src/unnamed/part_003:349-350 (exit), :361-363 (entry)
AfterCloseAll(r) ==
    IF run[r].alert = "ZONE_EXIT" THEN Respond_market(r, 200, "ok")
    ELSE Await_market(r, run[r], "zone_place")

\* the venue closes the whole position of symbol
ClosedOut(symbol) ==
    IF symbol \in Symbols THEN [position EXCEPT ![symbol] = 0] ELSE position

\* closeAll: the answer to PUT positions/{symbol}/close, src/unnamed/part_003:289-298.
\* The answer is not looked at.
CloseAllAnswer(r) ==
    /\ variant = "part_003:337"
    /\ run[r].pc = "zone_close"
    /\ \/ /\ position' = ClosedOut(run[r].symbol)     \* 200: closed
          /\ AfterCloseAll(r)
       \/ /\ position' = position                     \* non-2xx: nothing closed
          /\ AfterCloseAll(r)
       \/ /\ position' = position                     \* fetch rejects
          /\ Escape(r)
       \/ /\ position' = ClosedOut(run[r].symbol)     \* closed, the answer was lost
          /\ Escape(r)
    /\ UNCHANGED <<untouched, lastOrderTime>>

\* placeLimit's answer: src/unnamed/part_003:316-335, :363-371.
\* The answer's content is not looked at.
PlaceAnswer_zone(r) ==
    /\ variant = "part_003:337"
    /\ run[r].pc = "zone_place"
    /\ LET created == pending \cup {NewOrder(run[r].symbol, run[r].units)}
           rests == run[r].symbol \in Symbols /\ Cardinality(pending) < PendingCap
       IN  \/ /\ rests                               \* 201: the order rests
              /\ pending' = created
              /\ Respond_market(r, 200, "ok")
           \/ /\ pending' = pending                  \* non-2xx: rejected, no order
              /\ Respond_market(r, 200, "ok")
           \/ /\ pending' = pending                  \* fetch rejects
              /\ Escape(r)
           \/ /\ rests                               \* created, the answer was lost
              /\ pending' = created
              /\ Escape(r)
    /\ UNCHANGED <<env, processing, calls, lastEntryTime, lastEntrySide, lastCloseTime,
                   placed, lastPlacedSide, position, lastOrderTime>>

----------------------------------------------------------------------------
(* src/server.js:76-246: the limit-only handler.  It has no gate and never *)
(* reads the account: an EXIT closes by PUT positions/{symbol}/close, an   *)
(* entry closes the same way and then places a LIMIT order.  Here          *)
(* lastOrderTime and lastEntryTime are maps from the payload's symbol to a *)
(* time, a missing key reading as 0 (`?? 0`).                              *)

\* req.body after the alert_message unwrapping
PayloadsLimit ==
    [alert : {"EXIT", "LONG_LIMIT", "SHORT_LIMIT", "PING"}, symbol : {"USD_JPY"},
     parses : {TRUE}]
    \cup [alert : {"EXIT", "LONG_LIMIT"}, symbol : {"EUR_USD"}, parses : {TRUE}]
    \cup {[alert |-> "EXIT", symbol |-> "USD_JPY", parses |-> FALSE]}

\* src/server.js:214-216
unitsOf_limit(alert) ==
    IF alert = "LONG_LIMIT" THEN FIXED_UNITS_limit
    ELSE IF alert = "SHORT_LIMIT" THEN 0 - FIXED_UNITS_limit ELSE 0

\* history: the broker calls a run has issued when it is at pc, the code
\* between the calls being a straight line (src/server.js:205, :223, :226);
\* a closePosition that was answered, but not with a 2xx, is noted
callsOf_limit(rec) ==
    LET close == IF rec.read = "failed" THEN <<"PUT close", CallFailed>> ELSE <<"PUT close">>
    IN  IF rec.pc = "limit_place" THEN Append(close, "POST limit") ELSE close

\* res.json(...) of the limit-only handler: every answer is a 200
Respond_limit(r, c, body, why) ==
    /\ run' = [run EXCEPT ![r] = Idle]
    /\ resp' = [status |-> 200, body |-> body, why |-> why, calls |-> c]

\* Mutant of exitCooldownActive: an entry on any symbol counts
exitCooldownAnySymbol(symbol, t) ==
    \E s \in Symbols : t - lastEntryTime[s] < EXIT_COOLDOWN_MS

\* src/server.js:200
exitCooldownActive(symbol, t) == t - lastEntryTime[symbol] < EXIT_COOLDOWN_MS

\* a webhook is delivered: src/server.js:187-223; wake holds the local `now`
Arrive_limit(r, p) ==
    /\ variant = "server.js:187"
    /\ run[r].pc = "idle"
    /\ \A q \in Reqs : q < r => run[q].pc # "idle"
    /\ LET units == unitsOf_limit(p.alert)
           rec == [Idle EXCEPT !.alert = p.alert, !.symbol = p.symbol, !.units = units,
                               !.wake = now]
       IN  IF ~p.parses THEN Respond_limit(r, <<>>, "error", "exception")
           ELSE IF p.alert = "EXIT"
           THEN IF exitCooldownActive(p.symbol, now)
                THEN Respond_limit(r, <<>>, "skipped", "entry cooldown")
                ELSE Await_market(r, rec, "limit_exit_close")
           ELSE IF now - lastOrderTime[p.symbol] < ORDER_COOLDOWN_MS_limit
           THEN Respond_limit(r, <<>>, "skipped", "order cooldown")
           ELSE IF units = 0 THEN Respond_limit(r, <<>>, "skipped", "unknown alert")
           ELSE Await_market(r, rec, "limit_close")
    /\ UNCHANGED <<env, processing, calls, lastEntryTime, lastEntrySide, position, pending,
                   lastCloseTime, lastOrderTime, placed, lastPlacedSide>>

\* closePosition's answer: src/server.js:118-135, :140-156.  fetchJSON
\* returns {error: true, ...} for a non-2xx answer and throws only when
\* fetch itself rejects.  longUnits/shortUnits ALL close what is open.
\* What closePosition returned (read) is not looked at: an EXIT answers ok
\* (:205-206), an entry goes on to placeLimit (:223-226).
ClosePositionAnswer(r) ==
    /\ variant = "server.js:187"
    /\ run[r].pc \in {"limit_exit_close", "limit_close"}
    /\ LET s == run[r].symbol
           open == s \in Symbols /\ position[s] # 0
           flat == IF open THEN [position EXCEPT ![s] = 0] ELSE position
       IN  \/ \E read \in {"ok", "failed"} :
                /\ IF read = "ok"
                   THEN open /\ position' = flat  \* 200: the position is closed
                   ELSE position' = position      \* non-2xx: nothing is closed
                /\ LET rec == [run[r] EXCEPT !.read = read]
                   IN  IF rec.alert = "EXIT"
                       THEN Respond_limit(r, callsOf_limit(rec), "ok", "exit")
                       ELSE Await_market(r, rec, "limit_place")
           \/ /\ position' = position            \* fetch rejects
              /\ Respond_limit(r, callsOf_limit(run[r]), "error", "exception")
           \/ /\ open                            \* closed, the answer was lost
              /\ position' = flat
              /\ Respond_limit(r, callsOf_limit(run[r]), "error", "exception")
    /\ closed' = NoClose
    /\ UNCHANGED <<clock, processing, calls, lastEntryTime, lastEntrySide, pending,
                   lastCloseTime, lastOrderTime, placed, lastPlacedSide>>

\* placeLimit's answer: src/server.js:158-182, :226-237.  The answer's
\* content is not looked at: once placeLimit returned, the tail of the
\* handler (:234-237) writes both times and answers ok.
PlaceLimitAnswer(r) ==
    /\ variant = "server.js:187"
    /\ run[r].pc = "limit_place"
    /\ LET created == pending \cup {NewOrder(run[r].symbol, run[r].units)}
           rests == run[r].symbol \in Symbols /\ Cardinality(pending) < PendingCap
       IN  \/ /\ \/ rests /\ pending' = created     \* 201: the order rests
                 \/ pending' = pending               \* non-2xx: rejected, no order
              /\ lastOrderTime' = [lastOrderTime EXCEPT ![run[r].symbol] = run[r].wake]
              /\ lastEntryTime' = [lastEntryTime EXCEPT ![run[r].symbol] = run[r].wake]
              /\ Respond_limit(r, callsOf_limit(run[r]), "ok", "entry")
           \/ /\ pending' = pending                  \* fetch rejects
              /\ UNCHANGED <<lastOrderTime, lastEntryTime>>
              /\ Respond_limit(r, callsOf_limit(run[r]), "error", "exception")
           \/ /\ rests                               \* created, the answer was lost
              /\ pending' = created
              /\ UNCHANGED <<lastOrderTime, lastEntryTime>>
              /\ Respond_limit(r, callsOf_limit(run[r]), "error", "exception")
    /\ UNCHANGED <<env, processing, calls, lastEntrySide, lastCloseTime, placed,
                   lastPlacedSide, position>>

----------------------------------------------------------------------------
(* The order builders of src/server.js taken alone: placeMarketOrder       *)
(* (:334-360, with fmtPrice of :277-281) and placeLimit (:158-170, with    *)
(* fmtPrice of :106-107).  wire holds the arguments of one call and the    *)
(* order body it sends.                                                    *)

RECURSIVE Pow10(_)
Pow10(n) == IF n = 0 THEN 1 ELSE 10 * Pow10(n - 1)

\* a price that is not there: null, undefined, 0 or NaN, all of them falsy
NoPrice == 0

(* A price is a decimal with at most six places and is written as an       *)
(* integer p, in millionths.  The code computes with the IEEE double next  *)
(* to it, which is hardly ever the decimal itself.  A double is held here  *)
(* as [p, s, n, odd]: the value p/10^6 + n/(5^6 * 2^s), a multiple of 2^-s,*)
(* odd telling the parity of the multiple of 2^-s just below (or at)       *)
(* p/10^6 in the binade of p/10^6.  All of it is exact integer arithmetic, *)
(* for prices from 0.01 to 1000.                                           *)

\* the double that JSON.parse (or Number) reads from the literal p/10^6
double(p) ==
    LET Two[j \in 0..80] == IF j = 0 THEN 1 ELSE (2 * Two[j - 1]) % 31250
        Pow2[j \in 0..20] == IF j = 0 THEN 1 ELSE 2 * Pow2[j - 1]
        \* 2^e <= p/10^6 < 2^(e+1)
        e == IF p >= 1000000
             THEN CHOOSE j \in 0..11 :
                    Pow2[j] * 1000000 <= p /\ (j = 11 \/ Pow2[j + 1] * 1000000 > p)
             ELSE 0 - (CHOOSE j \in 1..20 :
                         p * Pow2[j] >= 1000000 /\ p * Pow2[j - 1] < 1000000)
        \* p/10^6 * 2^(52-e) = p * 2^(46-e) / 5^6: its remainders
        w == ((p % 31250) * Two[46 - e]) % 31250
        rem == w % 15625
    IN  [p |-> p, s |-> 52 - e,
         n |-> IF 2 * rem > 15625 THEN 15625 - rem ELSE 0 - rem,
         odd |-> w >= 15625]

\* a + b of two doubles, rounded to the nearest double (ties to even)
plus(a, b) ==
    LET Pow2[j \in 0..20] == IF j = 0 THEN 1 ELSE 2 * Pow2[j - 1]
        g == double(a.p + b.p)
        rem == IF g.n > 0 THEN 15625 - g.n ELSE 0 - g.n
        s == IF a.s > b.s THEN a.s ELSE b.s
        ulp == 15625 * Pow2[s - g.s]
        half == ulp \div 2
        \* the exact sum, counted in 1/(5^6 * 2^s) from the multiple of
        \* 2^-g.s below the decimal sum
        t == rem * Pow2[s - g.s] + a.n * Pow2[s - a.s] + b.n * Pow2[s - b.s]
        q == IF t < 0 - half \/ (t = 0 - half /\ g.odd) THEN 0 - 1
             ELSE IF t < half \/ (t = half /\ ~g.odd) THEN 0
             ELSE IF t < ulp + half \/ (t = ulp + half /\ g.odd) THEN 1
             ELSE 2
    IN  [p |-> a.p + b.p, s |-> s, n |-> q * ulp - rem * Pow2[s - g.s],
         odd |-> (g.odd # (q % 2 = 1))]

\* Number.prototype.toFixed(decimals) of a positive double x: the decimal
\* string with `decimals` digits after the point, as the number it reads as
\* (in millionths) and the count of its decimals.  A decimal half-way
\* between two such strings goes where its double lies.
toFixed(x, decimals) ==
    LET step == Pow10(6 - decimals)
        r == x.p % step
        up == 2 * r > step \/ (2 * r = step /\ x.n >= 0)
    IN  [value |-> x.p - r + (IF up THEN step ELSE 0), decimals |-> decimals]

\* a field that is left out of the JSON body
Absent == [value |-> NoPrice, decimals |-> 0]

\* src/server.js:270, :277-281; price is a double
fmtPrice_market(price) == toFixed(price, 3)

\* src/server.js:98-101
PRECISION_MAP == [USD_JPY |-> 3, EUR_USD |-> 5]

\* src/server.js:106-107; p is a double
fmtPrice(p, sym) ==
    toFixed(p, IF sym \in DOMAIN PRECISION_MAP THEN PRECISION_MAP[sym] ELSE 3)

\* src/server.js:334-352: the order body placeMarketOrder sends, the prices
\* being the doubles of the payload's numbers.  tp - sl is exact when the
\* two are no more than a factor 2 apart.
placeMarketOrder(instrument, units, stopLossPrice, takeProfitPrice) ==
    LET Pow2[j \in 0..20] == IF j = 0 THEN 1 ELSE 2 * Pow2[j - 1]
        sl == double(stopLossPrice)
        given == double(takeProfitPrice)
        min == double(MIN_SLTP_PIPS)
        hi == IF given.p > sl.p THEN given ELSE sl
        lo == IF given.p > sl.p THEN sl ELSE given
        s == IF lo.s > min.s THEN lo.s ELSE min.s
        \* Math.abs(takeProfitPrice - stopLossPrice) < MIN_SLTP_PIPS
        tooClose == IF hi.p - lo.p # MIN_SLTP_PIPS THEN hi.p - lo.p < MIN_SLTP_PIPS
                    ELSE hi.n * Pow2[s - hi.s] - lo.n * Pow2[s - lo.s]
                            < min.n * Pow2[s - min.s]
        rewritten == stopLossPrice # NoPrice /\ takeProfitPrice # NoPrice /\ tooClose
        tp == IF rewritten THEN plus(sl, min) ELSE given
    IN  [type |-> "MARKET", instrument |-> instrument, units |-> units,
         price |-> Absent,
         stopLossOnFill |-> IF stopLossPrice # NoPrice THEN fmtPrice_market(sl) ELSE Absent,
         takeProfitOnFill |-> IF rewritten \/ takeProfitPrice # NoPrice
                              THEN fmtPrice_market(tp) ELSE Absent]

\* src/server.js:158-170: the order body placeLimit sends, the prices being
\* the doubles of the payload's numbers
placeLimit(sym, units, entry, sl, tp) ==
    [type |-> "LIMIT", instrument |-> sym, units |-> units,
     price |-> fmtPrice(double(entry), sym),
     stopLossOnFill |-> IF sl # NoPrice THEN fmtPrice(double(sl), sym) ELSE Absent,
     takeProfitOnFill |-> IF tp # NoPrice THEN fmtPrice(double(tp), sym) ELSE Absent]

\* the symbols and the prices the builders are called with
SymbolsWire == {"USD_JPY", "EUR_JPY", "EUR_USD", "GBP_USD"}
PricesMarket == {NoPrice, 149500000, 150000000, 150004000, 150010000, 150500000}
PricesLimit == {1234567, 150123400}
StopsLimit == {NoPrice, 1230004, 149999999}

NotSent == [type |-> "none"]

\* the calls of the builders that are looked at
WireCalls ==
    [fn : {"placeMarketOrder"}, symbol : {"USD_JPY"}, entry : {NoPrice},
     units : {FIXED_UNITS_market, 0 - FIXED_UNITS_market},
     sl : PricesMarket, tp : PricesMarket, order : {NotSent}]
    \cup
    [fn : {"placeLimit"}, symbol : SymbolsWire, entry : PricesLimit,
     units : {FIXED_UNITS_limit, 0 - FIXED_UNITS_limit},
     sl : StopsLimit, tp : StopsLimit, order : {NotSent}]

\* placeMarketOrder builds its order: src/server.js:334-352
PlaceMarketOrder ==
    /\ wire.fn = "placeMarketOrder"
    /\ wire.order = NotSent
    /\ wire' = [wire EXCEPT !.order = placeMarketOrder(wire.symbol, wire.units, wire.sl, wire.tp)]
    /\ UNCHANGED <<now, variant, observing, processing, lastEntryTime, lastEntrySide,
                   position, pending, run, lastCloseTime, lastOrderTime, calls, resp,
                   placed, lastPlacedSide, closed>>

\* placeLimit builds its order: src/server.js:158-170
PlaceLimit ==
    /\ wire.fn = "placeLimit"
    /\ wire.order = NotSent
    /\ wire' = [wire EXCEPT !.order = placeLimit(wire.symbol, wire.units, wire.entry,
                                                 wire.sl, wire.tp)]
    /\ UNCHANGED <<now, variant, observing, processing, lastEntryTime, lastEntrySide,
                   position, pending, run, lastCloseTime, lastOrderTime, calls, resp,
                   placed, lastPlacedSide, closed>>

----------------------------------------------------------------------------
(* The environment: the clock and the venue *)

handlers == <<processing, lastEntryTime, lastEntrySide, lastCloseTime, lastOrderTime,
              run, calls, variant, observing, lastPlacedSide, wire>>

Tick ==
    /\ now + TickMs <= MaxTime
    /\ now' = now + TickMs
    /\ placed' = Forget(now')
    /\ resp' = NoResp
    /\ UNCHANGED <<handlers, position, pending, closed>>

\* a resting LIMIT order fills (positionFill OPEN_ONLY: it may only open or
\* extend a position; otherwise the venue cancels it)
LimitFill ==
    /\ \E o \in pending :
         /\ pending' = pending \ {o}
         /\ IF position[o.instrument] * o.units >= 0 /\ CanFill(o.instrument, o.units)
            THEN position' = Filled(o.instrument, o.units)
            ELSE position' = position
    /\ resp' = NoResp
    /\ closed' = NoClose
    /\ UNCHANGED <<handlers, now, placed>>

\* the position's stop-loss or take-profit order fills
StopOut ==
    /\ \E s \in Symbols :
         /\ position[s] # 0
         /\ position' = [position EXCEPT ![s] = 0]
    /\ resp' = NoResp
    /\ closed' = NoClose
    /\ UNCHANGED <<handlers, now, pending, placed>>

InitBroker ==
    /\ now = StartTime
    /\ position = [s \in Symbols |-> 0]
    /\ pending = {}

InitHandlers ==
    /\ processing = FALSE
    /\ lastEntryTime = 0
    /\ lastEntrySide = NULL
    /\ lastCloseTime = 0
    /\ lastOrderTime = [sd \in Sides |-> 0]
    /\ run = [r \in Reqs |-> Idle]
    /\ calls = <<>>
    /\ resp = NoResp
    /\ placed = NothingPlaced
    /\ lastPlacedSide = NULL
    /\ closed = NoClose
    /\ wire = NoWire

Init ==
    /\ variant = "part_004"
    /\ observing = "nothing"
    /\ InitBroker
    /\ InitHandlers

Broker ==
    \/ \E r \in Reqs : PendingOrdersAnswer(r)
    \/ \E r \in Reqs : CancelAnswer(r)
    \/ \E r \in Reqs : CloseReadAnswer(r)
    \/ \E r \in Reqs : ClosePostAnswer(r)
    \/ Tick
    \/ LimitFill
    \/ StopOut

Next ==
    \/ \E r \in Reqs, p \in Payloads : Arrive(r, p)
    \/ \E r \in Reqs : EntryReadAnswer(r)
    \/ \E r \in Reqs : SleepDone(r)
    \/ \E r \in Reqs : PlaceAnswer(r)
    \/ Broker

Spec == Init /\ [][Next]_vars

\* part_004 with the history of the entries kept
InitEntries ==
    /\ variant = "part_004"
    /\ observing = "entries"
    /\ InitBroker
    /\ InitHandlers

SpecEntries == InitEntries /\ [][Next]_vars

\* part_004 with the history of the exits kept
InitExits ==
    /\ variant = "part_004"
    /\ observing = "exits"
    /\ InitBroker
    /\ InitHandlers

SpecExits == InitExits /\ [][Next]_vars

\* part_004 with the history of the orders kept
InitOrders ==
    /\ variant = "part_004"
    /\ observing = "orders"
    /\ InitBroker
    /\ InitHandlers

SpecOrders == InitOrders /\ [][Next]_vars

\* either gated handler
InitGated ==
    /\ variant \in {"part_004", "part_003"}
    /\ observing = "nothing"
    /\ InitBroker
    /\ InitHandlers

NextGated ==
    \/ \E r \in Reqs, p \in Payloads : Arrive(r, p)
    \/ \E r \in Reqs : EntryReadAnswer(r)
    \/ \E r \in Reqs : SleepDone(r)
    \/ \E r \in Reqs : PlaceAnswer(r)
    \/ \E r \in Reqs, p \in Payloads_part_003 : Arrive_part_003(r, p)
    \/ \E r \in Reqs : EntryReadAnswer_part_003(r)
    \/ \E r \in Reqs : SleepDone_part_003(r)
    \/ \E r \in Reqs : PlaceAnswer_part_003(r)
    \/ Broker

SpecGated == InitGated /\ [][NextGated]_vars

\* either gated handler, when every broker call that was issued returns or
\* throws in the end, time passes and the timers fire
Returns ==
    /\ WF_vars(\E r \in Reqs : PendingOrdersAnswer(r))
    /\ WF_vars(\E r \in Reqs : CancelAnswer(r))
    /\ WF_vars(\E r \in Reqs : CloseReadAnswer(r))
    /\ WF_vars(\E r \in Reqs : ClosePostAnswer(r))
    /\ WF_vars(\E r \in Reqs : EntryReadAnswer(r))
    /\ WF_vars(\E r \in Reqs : EntryReadAnswer_part_003(r))
    /\ WF_vars(\E r \in Reqs : PlaceAnswer(r))
    /\ WF_vars(\E r \in Reqs : PlaceAnswer_part_003(r))
    /\ WF_vars(\E r \in Reqs : SleepDone(r))
    /\ WF_vars(\E r \in Reqs : SleepDone_part_003(r))
    /\ WF_vars(Tick)

SpecGatedLive == InitGated /\ [][NextGated]_vars /\ Returns

\* the market-order handler; the account may hold a USD_JPY position when
\* the process starts
InitMarket ==
    /\ variant = "server.js"
    /\ observing = "nothing"
    /\ now = StartTime
    /\ \E u \in {0 - FIXED_UNITS_market, 0, FIXED_UNITS_market} :
          position = [s \in Symbols |-> IF s = "USD_JPY" THEN u ELSE 0]
    /\ pending = {}
    /\ InitHandlers

NextMarket ==
    \/ \E r \in Reqs, p \in PayloadsMarket : Arrive_market(r, p)
    \/ \E r \in Reqs : GetOpenPositionAnswer(r)
    \/ \E r \in Reqs : PlaceMarketOrderAnswer(r)
    \/ \E r \in Reqs : ClosePositionAllRead(r)
    \/ \E r \in Reqs : ClosePositionAllAnswer(r)
    \/ Tick
    \/ StopOut

SpecMarket == InitMarket /\ [][NextMarket]_vars

\* the two handlers whose exit closes by a market order of its own
InitCloseByOrder ==
    /\ variant \in {"server.js:16", "part_001:198"}
    /\ observing = "nothing"
    /\ now = StartTime
    /\ \E u \in {0 - FIXED_UNITS_simple, 0, FIXED_UNITS_simple} :
          position = [s \in Symbols |-> IF s = "USD_JPY" THEN u ELSE 0]
    /\ pending = {}
    /\ InitHandlers

NextCloseByOrder ==
    \/ \E r \in Reqs, p \in PayloadsMarket : Arrive_simple(r, p)
    \/ \E r \in Reqs, p \in PayloadsMarket : Arrive_part_001(r, p)
    \/ \E r \in Reqs : ExitReadAnswer(r)
    \/ \E r \in Reqs : ExitPostAnswer(r)
    \/ \E r \in Reqs : EntryPostAnswer_simple(r)
    \/ \E r \in Reqs : EntryReadAnswer_part_001(r)
    \/ \E r \in Reqs : EntryPostAnswer_part_001(r)
    \/ Tick
    \/ StopOut

SpecCloseByOrder == InitCloseByOrder /\ [][NextCloseByOrder]_vars

\* the two handlers whose exits name a direction
InitZlsma ==
    /\ variant \in {"part_005", "part_008"}
    /\ observing = "nothing"
    /\ now = StartTime
    /\ \E u \in {0 - FIXED_UNITS_part_005, 0, FIXED_UNITS_part_005} :
          position = [s \in Symbols |-> IF s = "USD_JPY" THEN u ELSE 0]
    /\ pending = {}
    /\ InitHandlers

NextZlsma ==
    \/ \E r \in Reqs, p \in PayloadsZlsma : Arrive_part_005(r, p)
    \/ \E r \in Reqs : EntryPostAnswer_part_005(r)
    \/ \E r \in Reqs : ExitReadAnswer_part_005(r)
    \/ \E r \in Reqs : ExitPostAnswer_part_005(r)
    \/ Tick
    \/ StopOut

SpecZlsma == InitZlsma /\ [][NextZlsma]_vars

\* a resting LIMIT order of this handler fills (positionFill DEFAULT: it
\* opens, extends or reduces the position)
LimitFill_zone ==
    /\ variant = "part_003:337"
    /\ \E o \in pending :
         /\ CanFill(o.instrument, o.units)
         /\ pending' = pending \ {o}
         /\ position' = Filled(o.instrument, o.units)
    /\ resp' = NoResp
    /\ UNCHANGED <<handlers, now, placed, closed>>

\* the ungated zone handler
InitZone ==
    /\ variant = "part_003:337"
    /\ observing = "nothing"
    /\ InitBroker
    /\ InitHandlers

NextZone ==
    \/ \E r \in Reqs, p \in Payloads : Arrive_zone(r, p)
    \/ \E r \in Reqs : PendingOrdersAnswer_zone(r)
    \/ \E r \in Reqs : CancelAnswer_zone(r)
    \/ \E r \in Reqs : CloseAllAnswer(r)
    \/ \E r \in Reqs : PlaceAnswer_zone(r)
    \/ LimitFill_zone
    \/ Tick
    \/ StopOut

SpecZone == InitZone /\ [][NextZone]_vars

\* the order builders of server.js, each called once
InitWire ==
    /\ variant = "server.js"
    /\ observing = "nothing"
    /\ InitBroker
    /\ processing = FALSE
    /\ lastEntryTime = 0
    /\ lastEntrySide = NULL
    /\ lastCloseTime = 0
    /\ lastOrderTime = [sd \in Sides |-> 0]
    /\ run = [r \in Reqs |-> Idle]
    /\ calls = <<>>
    /\ resp = NoResp
    /\ placed = NothingPlaced
    /\ lastPlacedSide = NULL
    /\ closed = NoClose
    /\ wire \in WireCalls

NextWire ==
    \/ PlaceMarketOrder
    \/ PlaceLimit

SpecWire == InitWire /\ [][NextWire]_vars

\* a resting LIMIT order of the limit-only handler fills (positionFill
\* DEFAULT: it opens, extends or reduces the position)
LimitFill_limit ==
    /\ variant = "server.js:187"
    /\ \E o \in pending :
         /\ CanFill(o.instrument, o.units)
         /\ pending' = pending \ {o}
         /\ position' = Filled(o.instrument, o.units)
    /\ resp' = NoResp
    /\ UNCHANGED <<handlers, now, placed, closed>>

\* the limit-only handler; the account may hold a USD_JPY position when
\* the process starts
InitLimit ==
    /\ variant = "server.js:187"
    /\ observing = "nothing"
    /\ now = StartTime
    /\ \E u \in {0 - FIXED_UNITS_limit, 0, FIXED_UNITS_limit} :
          position = [s \in Symbols |-> IF s = "USD_JPY" THEN u ELSE 0]
    /\ pending = {}
    /\ processing = FALSE
    /\ lastEntryTime = [s \in Symbols |-> 0]
    /\ lastEntrySide = NULL
    /\ lastCloseTime = 0
    /\ lastOrderTime = [s \in Symbols |-> 0]
    /\ run = [r \in Reqs |-> Idle]
    /\ calls = <<>>
    /\ resp = NoResp
    /\ placed = NothingPlaced
    /\ lastPlacedSide = NULL
    /\ closed = NoClose
    /\ wire = NoWire

NextLimit ==
    \/ \E r \in Reqs, p \in PayloadsLimit : Arrive_limit(r, p)
    \/ \E r \in Reqs : ClosePositionAnswer(r)
    \/ \E r \in Reqs : PlaceLimitAnswer(r)
    \/ LimitFill_limit
    \/ Tick
    \/ StopOut

SpecLimit == InitLimit /\ [][NextLimit]_vars

----------------------------------------------------------------------------
(* Properties of src/unnamed/part_004 *)

Has(c, call) == \E i \in 1..Len(c) : c[i] = call
IsEntry(p) == p.parses /\ p.symbol # NoSymbol /\ sideOf(p.alert) # NULL
SameDirection(pos, side) ==
    ~pos.null /\ ((side = "LONG" /\ pos.long > 0) \/ (side = "SHORT" /\ pos.short < 0))
OppositeOpen(net, side) == (side = "LONG" /\ net < 0) \/ (side = "SHORT" /\ net > 0)

\* C1: in either gated handler at most one request at a time is between
\* processing = true and the finally block, whatever the interleaving of the
\* webhooks: no two runs are in their broker-call section together.
C1_OneRunAtATime == Cardinality(InFlight) <= 1 /\ (InFlight # {} => processing)

\* C1 witness: a second webhook was delivered while a run waited for the
\* broker's answer to its close order
C1_Witness == resp.why = "busy" /\ \E r \in Reqs : run[r].pc = "close_post"

\* C2: a webhook delivered while the gate is held is answered at once with
\* {skipped: true}; the step issues no broker call, leaves the cooldown
\* state, the broker and every request slot as they were, so nothing of the
\* request remains that could run later.
C2_BusyDropped ==
    [][\A r \in Reqs, p \in Payloads :
         (processing /\ Arrive(r, p)) =>
            /\ resp'.body = "skipped" /\ resp'.status = 200 /\ resp'.calls = <<>>
            /\ UNCHANGED <<run, calls, lastEntryTime, lastEntrySide, position, pending>>]_vars

\* C2 witness: a webhook was rejected as busy while the run in flight sleeps
C2_Witness == resp.why = "busy" /\ \E r \in Reqs : run[r].pc = "sleep"

\* C4 (as claimed): in a run that found an opposite position, placeLimit is
\* only called after that run has sent the close order of closeAllSafe.
C4_CloseBeforePlace ==
    \A r \in Reqs : (run[r].rev /\ run[r].pc = "place") => Has(calls, "POST market")

\* C5 (as claimed): in the reversal path placeLimit is never called while the
\* broker still holds units opposite to the entry side.
C5_ClearedBeforePlace ==
    [][\A r \in Reqs :
         (run[r].pc # "place" /\ run'[r].pc = "place" /\ run'[r].rev) =>
            ~OppositeOpen(position'[run'[r].symbol], run'[r].side)]_vars

\* C6 (as claimed): an entry whose position read reports a position in its
\* own direction never gets to placeLimit.
C6_SameSideSkipped ==
    \A r \in Reqs :
        run[r].pc = "place" => ~(run[r].read = "ok" /\ SameDirection(run[r].pos, run[r].side))

\* C9 (as claimed): an entry whose openPositions read failed (non-2xx status
\* or a body that is not JSON) never gets to placeLimit.
C9_FailedReadAborts ==
    \A r \in Reqs : run[r].pc = "place" => run[r].read # "failed"

\* C10 (as claimed): when placeLimit's order is not created, the request does
\* not end ok and lastEntryTime/lastEntrySide stay as they were.
C10_RejectedKeepsCooldown ==
    [][\A r \in Reqs :
         (run[r].pc = "place" /\ run'[r].pc = "idle" /\ pending' = pending) =>
            (resp'.body # "ok" /\ UNCHANGED <<lastEntryTime, lastEntrySide>>)]_vars

\* C8 (as claimed): an entry delivered, with the gate free, less than
\* COOLDOWN_MS after placeLimit returned for an entry of the same side and
\* symbol, with no successful exit since, is skipped for cooldown.
C8_SecondSkipped ==
    [][\A r \in Reqs, p \in Payloads :
         (/\ ~processing /\ Arrive(r, p) /\ IsEntry(p)
          /\ placed[sideOf(p.alert)].t # NoTime
          /\ placed[sideOf(p.alert)].symbol = p.symbol
          /\ now - placed[sideOf(p.alert)].t < COOLDOWN_MS)
         => resp'.why = "cooldown"]_vars

----------------------------------------------------------------------------
(* Properties of the market-order handler of src/server.js *)

AtPlace(r) == run[r].pc = "market_place"

\* C3 (as claimed): two LONG entries in flight together, each of which the
\* broker told that no position is open, are never both at placeMarketOrder.
C3_OneLongPlaces ==
    \A r, q \in Reqs :
        ~(/\ r # q /\ AtPlace(r) /\ AtPlace(q)
          /\ run[r].side = "LONG" /\ run[q].side = "LONG"
          /\ run[r].read = "ok" /\ run[q].read = "ok"
          /\ run[r].pos.null /\ run[q].pos.null)

\* C7 (as claimed): when the broker answers an entry's position read with a
\* position on the entry's side (long >= 0, short <= 0), the entry is answered
\* "position exists" and placeMarketOrder is not called; when the position is
\* on the other side, the entry is not answered "position exists".
C7_PositionExists ==
    [][\A r \in Reqs :
         (/\ run[r].pc = "market_read"
          /\ \/ run'[r].pc = "market_place" /\ run'[r].read = "ok"
             \/ run'[r].pc = "idle" /\ resp'.status = 200)
         => /\ SameDirection([null |-> FALSE, long |-> Max(position["USD_JPY"], 0),
                              short |-> Min(position["USD_JPY"], 0)], run[r].side)
                 => (resp'.why = "position exists" /\ run'[r].pc = "idle")
            /\ OppositeOpen(position["USD_JPY"], run[r].side)
                 => resp'.why # "position exists"]_vars

----------------------------------------------------------------------------
(* Properties of the exits *)

\* what the request that took the step has done so far
LogAfter == resp'.calls \o calls'

\* C11: in either gated handler, when the close order of a ZONE_EXIT is
\* answered without an orderFillTransaction, the request ends at once with
\* the failure 'close failed' (the close order is its last broker call) and
\* lastCloseTime, lastEntryTime and lastEntrySide keep their values.
C11_CloseFailedEnds ==
    [][\A r \in Reqs :
         (run[r].pc = "close_post" /\ run[r].alert = "ZONE_EXIT" /\ Has(LogAfter, NoFill))
         => /\ resp'.status = 500 /\ resp'.body = "close failed"
            /\ run'[r].pc = "idle" /\ calls' = <<>>
            /\ resp'.calls = Append(calls, NoFill)
            /\ calls[Len(calls)] = "POST market"
            /\ UNCHANGED <<lastCloseTime, lastEntryTime, lastEntrySide>>]_vars

\* C11 witness: a ZONE_EXIT of part_003 ended 'close failed' after its close
\* order got no fill
C11_Witness ==
    /\ variant = "part_003"
    /\ resp.body = "close failed"
    /\ resp.calls = <<"GET pendingOrders", "GET openPositions", "POST market", NoFill>>

\* C12: in part_004 an entry delivered with the gate free, when no entry has
\* been placed since the last successful ZONE_EXIT, is not skipped for
\* cooldown: it goes on to cancelAll, however short the time since the exit
\* and since the entries before it.
C12_ExitClearsCooldown ==
    [][\A r \in Reqs, p \in Payloads :
         (~processing /\ lastPlacedSide = NULL /\ Arrive(r, p) /\ IsEntry(p))
         => (resp' = NoResp /\ run'[r].pc = "cancel_list")]_vars

\* C12 witness: a LONG_LIMIT is being processed less than COOLDOWN_MS after
\* an entry was placed (lastEntryTime), a ZONE_EXIT having succeeded since
C12_Witness ==
    \E r \in Reqs :
        /\ run[r].pc = "cancel_list" /\ run[r].alert = "LONG_LIMIT"
        /\ lastPlacedSide = NULL /\ lastEntryTime >= StartTime
        /\ now - lastEntryTime < COOLDOWN_MS

\* C13: in the first handler of part_003 an entry delivered with the gate
\* free less than COOLDOWN_MS after lastCloseTime was recorded is skipped in
\* the same step: no broker call is issued, nothing changes at the broker.
C13_SkippedAfterClose ==
    [][\A r \in Reqs, p \in Payloads :
         (/\ ~processing /\ Arrive_part_003(r, p) /\ IsEntry(p)
          /\ lastCloseTime >= StartTime /\ now - lastCloseTime < COOLDOWN_MS)
         => /\ resp'.body = "skipped" /\ resp'.calls = <<>>
            /\ run' = run /\ calls' = <<>>
            /\ UNCHANGED <<pending, position, lastCloseTime>>]_vars

\* C13 witness: an entry was skipped for cooldown after a close was recorded
C13_Witness ==
    /\ variant = "part_003" /\ resp.why = "cooldown"
    /\ lastCloseTime >= StartTime /\ now - lastCloseTime < COOLDOWN_MS

\* C14 (as claimed): a ZONE_EXIT processed next after a ZONE_EXIT for the same
\* symbol that sent a close order, no order or stop having filled and no
\* other signal having been processed since that close was decided, sends no
\* close order.
C14_SecondExitSendsNone ==
    [][\A r \in Reqs :
         (run[r].pc = "close_read" /\ run[r].alert = "ZONE_EXIT"
          /\ closed.symbol = run[r].symbol)
         => run'[r].pc # "close_post"]_vars

\* C14 (amended): the same, provided the close order of the first exit was
\* filled.
C14_SecondExitAfterFill ==
    [][\A r \in Reqs :
         (run[r].pc = "close_read" /\ run[r].alert = "ZONE_EXIT"
          /\ closed.symbol = run[r].symbol /\ closed.filled)
         => run'[r].pc # "close_post"]_vars

\* C14 witness: the second ZONE_EXIT has been told that USD_JPY is flat and
\* sleeps without having sent an order, the first one's close having filled
C14_Witness ==
    \E r \in Reqs :
        /\ run[r].pc = "sleep" /\ run[r].alert = "ZONE_EXIT"
        /\ closed = [symbol |-> "USD_JPY", filled |-> TRUE] /\ run[r].symbol = "USD_JPY"
        /\ ~Has(calls, "POST market")

\* C15 (as claimed): the market order an exit of server.js:16-71 or of
\* part_001:198-298 sends for a position with long >= 0 and short <= 0 has
\* units -(long + short), the opposite of the net position it was told.
C15_ExitOrderFlattens ==
    \A r \in Reqs :
        run[r].pc = "exit_post" => run[r].units = 0 - (run[r].pos.long + run[r].pos.short)

\* C16 (as claimed): in part_004 each of the exit alerts EXIT,
\* LONG_EXIT_ZLSMA, SHORT_EXIT_ZLSMA, ZONE_EXIT and CLOSE_ALL, delivered with
\* a symbol while the gate is free, starts the exit: the request goes on to
\* cancelAll as a ZONE_EXIT does.
C16_ExitAlertsAlike ==
    [][\A r \in Reqs, p \in Payloads :
         (/\ ~processing /\ Arrive(r, p) /\ p.parses /\ p.symbol # NoSymbol
          /\ p.alert \in {"EXIT", "LONG_EXIT_ZLSMA", "SHORT_EXIT_ZLSMA", "ZONE_EXIT",
                          "CLOSE_ALL"})
         => (run'[r].pc = "cancel_list" /\ resp' = NoResp)]_vars

\* C17: in part_005 and part_008 an exit alert that names a direction closes
\* whichever side is open: when the position read is answered with the
\* listing and a position is open, a close order that flattens it is sent.
C17_ExitClosesOpenSide ==
    [][\A r \in Reqs :
         (/\ variant \in {"part_005", "part_008"}
          /\ run[r].pc = "exit_read"
          /\ run'[r].pc # "exit_read"
          /\ position[run[r].symbol] # 0
          /\ resp'.status # 500)
         => (/\ run'[r].pc = "exit_post"
             /\ run'[r].units = 0 - position[run[r].symbol])]_vars

\* the alerts the handler of part_004 recognizes: src/unnamed/part_004:182,204-206
Recognized == {"ZONE_EXIT", "LONG_LIMIT", "SHORT_LIMIT"}

\* C18: in part_004 a webhook whose alert is not recognized, whose symbol is
\* missing or whose alert_message does not parse is answered at once: no
\* request is left running, no broker call is made, and lastEntryTime,
\* lastEntrySide and the broker's state are as before.
C18_UnrecognizedDoesNothing ==
    [][\A r \in Reqs, p \in Payloads :
         (Arrive(r, p) /\ (~p.parses \/ p.symbol = NoSymbol \/ p.alert \notin Recognized))
         => (/\ resp' # NoResp
             /\ resp'.calls = <<>>
             /\ run' = run
             /\ calls' = calls
             /\ UNCHANGED <<lastEntryTime, lastEntrySide, position, pending>>)]_vars

\* an unrecognized alert was answered while a cooldown was recorded and a
\* position was open
C18_Witness ==
    /\ variant = "part_004"
    /\ resp.why = "unknown alert"
    /\ resp.calls = <<>>
    /\ lastEntrySide # NULL
    /\ position["USD_JPY"] # 0
    /\ InFlight = {}

----------------------------------------------------------------------------
(* Properties of the first handler of src/unnamed/part_003 *)

Count(c, call) == Cardinality({i \in 1..Len(c) : c[i] = call})
IsLimit(alert) == alert \in {"LONG_LIMIT", "SHORT_LIMIT"}

\* a LONG_LIMIT or SHORT_LIMIT request of part_003 ends, having met no
\* cooldown, no position and no pending order
PlainEntryEnds(r) ==
    /\ variant = "part_003"
    /\ run[r].pc # "idle"
    /\ run'[r].pc = "idle"
    /\ IsLimit(run[r].alert)
    /\ pending = {}
    /\ position[run[r].symbol] = 0
    /\ ~cooldownActive_part_003
    /\ ~Has(resp'.calls, "PUT cancel")
    /\ ~run[r].rev

\* the orders the step creates are LIMIT orders of +FIXED_UNITS for
\* LONG_LIMIT and of -FIXED_UNITS for SHORT_LIMIT
PlacesFixedUnits(r) ==
    \A o \in pending' \ pending :
        /\ o.instrument = run[r].symbol
        /\ o.units = IF run[r].alert = "LONG_LIMIT" THEN FIXED_UNITS_part_003
                     ELSE 0 - FIXED_UNITS_part_003

\* C19 as stated: such a request makes exactly one placeLimit call, of
\* +-FIXED_UNITS, and is answered ok:true.
C19_PlainEntryPlacesOnce ==
    [][\A r \in Reqs :
         PlainEntryEnds(r)
         => (/\ Count(resp'.calls, "POST limit") = 1
             /\ PlacesFixedUnits(r)
             /\ resp'.status = 200
             /\ resp'.body = "ok")]_vars

\* C19, amended: such a request makes at most one placeLimit call, of
\* +-FIXED_UNITS; unless one of its broker calls throws (the response is then
\* 500), it makes exactly one and is answered ok:true.
C19_PlainEntryPlacesOnceIfAnswered ==
    [][\A r \in Reqs :
         PlainEntryEnds(r)
         => (/\ Count(resp'.calls, "POST limit") <= 1
             /\ PlacesFixedUnits(r)
             /\ IF resp'.why = "exception"
                THEN resp'.status = 500
                ELSE /\ Count(resp'.calls, "POST limit") = 1
                     /\ resp'.status = 200
                     /\ resp'.body = "ok")]_vars

\* a SHORT_LIMIT met nothing, placed its order of -FIXED_UNITS and was answered ok
C19_Witness ==
    /\ variant = "part_003"
    /\ resp.body = "ok"
    /\ resp.why = "entry"
    /\ resp.calls = <<"GET pendingOrders", "GET openPositions", "POST limit">>
    /\ \E o \in pending : o.units = 0 - FIXED_UNITS_part_003
    /\ position = [s \in Symbols |-> 0]

----------------------------------------------------------------------------
(* Properties of the broker calls of src/unnamed/part_004 *)

\* C20: in part_004 no request calls placeLimit more than once or sends more
\* than one closing market order, whatever the broker answers: neither the
\* calls of the running request nor those of the request just answered hold
\* either call twice.
C20_NeverRetried ==
    variant = "part_004" =>
        /\ Count(calls, "POST limit") <= 1
        /\ Count(calls, "POST market") <= 1
        /\ Count(resp.calls, "POST limit") <= 1
        /\ Count(resp.calls, "POST market") <= 1

\* a request cancelled a pending order, sent its closing order, which was
\* not filled, and was answered with nothing more sent
C20_Witness ==
    /\ variant = "part_004"
    /\ resp.body = "close failed"
    /\ Count(resp.calls, "POST market") = 1
    /\ Count(resp.calls, "POST limit") = 0
    /\ resp.calls[Len(resp.calls)] = NoFill
    /\ \E i \in 1..Len(resp.calls) : resp.calls[i] = "PUT cancel"

----------------------------------------------------------------------------
(* Properties of the second handler of src/unnamed/part_003 *)

\* C21: in the ungated zone handler of part_003 every request that ends is
\* answered by the handler itself: a failure of a broker call or of the
\* parsing of alert_message is caught in the handler and turned into a
\* response; none escapes it and none leaves the request unanswered.
C21_FailuresAnswered ==
    [][\A r \in Reqs :
         (variant = "part_003:337" /\ run[r] # run'[r] /\ run'[r].pc = "idle")
         => (resp'.status # 0 /\ resp'.why # "escaped")]_vars

----------------------------------------------------------------------------
(* Further properties of src/unnamed/part_004 *)

InCancelAll(rec) == rec.pc \in {"cancel_list", "cancel_put"}

\* C22: in part_004 the cancelling before the close of a ZONE_EXIT is best
\* effort: however the pending-order query and the cancel calls are answered
\* (non-2xx, or the fetch throws), once cancelAll is over the handler goes on
\* to closeAllSafe, which reads the position.
C22_CancelIsBestEffort ==
    [][\A r \in Reqs :
         (/\ variant = "part_004"
          /\ run[r].alert = "ZONE_EXIT"
          /\ InCancelAll(run[r])
          /\ ~InCancelAll(run'[r]))
         => (run'[r].pc = "close_read" /\ calls' = Append(calls, "GET openPositions"))]_vars

\* C23: in part_004 the cooldown is kept per symbol: an entry is skipped for
\* cooldown only when the entry that started the cooldown, the last one of
\* its side that was placed, was for the same symbol.
C23_CooldownPerSymbol ==
    [][\A r \in Reqs, p \in Payloads :
         (/\ observing = "entries"
          /\ Arrive(r, p)
          /\ IsEntry(p)
          /\ resp'.why = "cooldown")
         => placed[sideOf(p.alert)].symbol = p.symbol]_vars

----------------------------------------------------------------------------
(* Properties of the order builders of src/server.js *)

\* C24: every order placeMarketOrder sends with both a stop-loss and a
\* take-profit has them on the right sides: the stop-loss below the
\* take-profit for a long order, above it for a short order.
C24_StopsOnTheRightSides ==
    (/\ wire.fn = "placeMarketOrder"
     /\ wire.order # NotSent
     /\ wire.order.stopLossOnFill # Absent
     /\ wire.order.takeProfitOnFill # Absent)
    => IF wire.order.units > 0
       THEN wire.order.stopLossOnFill.value < wire.order.takeProfitOnFill.value
       ELSE wire.order.takeProfitOnFill.value < wire.order.stopLossOnFill.value

JpyQuoted == {"USD_JPY", "EUR_JPY"}
Decimals(sym) == IF sym \in JpyQuoted THEN 3 ELSE 5
Sent(price) == price = Absent \/ price.decimals = Decimals(wire.symbol)

\* C25: every price placeLimit sends was formatted by fmtPrice with 3
\* decimals when the symbol is quoted in JPY and with 5 decimals otherwise,
\* whether PRECISION_MAP lists the symbol or not.
C25_PrecisionOfTheSymbol ==
    (wire.fn = "placeLimit" /\ wire.order # NotSent)
    => /\ wire.order.price.decimals = Decimals(wire.symbol)
       /\ Sent(wire.order.stopLossOnFill)
       /\ Sent(wire.order.takeProfitOnFill)

----------------------------------------------------------------------------
(* Properties of the gate of the gated handlers *)

\* the clock of the model has stopped before the timer of a sleeping run is due
Horizon == now = MaxTime /\ \E r \in Reqs : run[r].pc = "sleep" /\ run[r].wake > now

\* C26: in the gated handlers a run that holds the gate gives it back in the
\* end, on every path, when each of its broker calls returns or throws (and
\* the clock of the model goes far enough for its timer).
C26_GateReleased == processing ~> (~processing \/ Horizon)

\* a run that held the gate ended in the catch after two broker calls or
\* more, and the gate is free
C26_Witness ==
    /\ ~processing
    /\ InFlight = {}
    /\ resp.why = "exception"
    /\ Len(resp.calls) >= 2

\* C27: in part_004 processing is true exactly while a run is between taking
\* the gate and its finally block: after every step the flag is up if and
\* only if a run is in flight; a request that finds the flag up is answered
\* busy and changes neither the flag nor the run; a request that finds no
\* run in flight is never answered busy.
C27_GateTracksRun ==
    [][/\ processing' <=> InFlight' # {}
       /\ \A r \in Reqs, p \in Payloads :
            Arrive(r, p) =>
                IF InFlight # {}
                THEN resp'.why = "busy" /\ processing' /\ run' = run
                ELSE resp'.why # "busy"]_vars

\* a request was answered busy while the run that holds the gate awaited
\* placeLimit; the gate is still held and that run is the only one in flight
C27_Witness ==
    /\ variant = "part_004"
    /\ resp.why = "busy"
    /\ processing
    /\ \E r \in Reqs : run[r].pc = "place" /\ InFlight = {r}

OrdersOf(P, symbol) == {o \in P : o.instrument = symbol}

\* C28: in part_004, when the calls of cancelAll succeed, there is at most
\* one resting LIMIT order per symbol: the orders of a symbol only become
\* more when an entry run for that symbol is answered by placeLimit, and
\* when the cancelAll of that run met no failure its order is then the only
\* one of the symbol.
C28_OneRestingOrder ==
    [][\A sym \in Symbols :
         Cardinality(OrdersOf(pending', sym)) > Cardinality(OrdersOf(pending, sym))
         => \E r \in Reqs :
               /\ run[r].pc = "place"
               /\ run[r].symbol = sym
               /\ InFlight = {r}
               /\ ~Has(calls, CallFailed)
                    => Cardinality(OrdersOf(pending', sym)) = 1]_vars

\* an entry cancelled the resting order of its symbol and placed its own,
\* while an order of the other symbol rests
C28_Witness ==
    /\ observing = "orders"
    /\ resp.why = "entry"
    /\ Has(resp.calls, "PUT cancel")
    /\ ~Has(resp.calls, CallFailed)
    /\ \A sym \in Symbols : Cardinality(OrdersOf(pending, sym)) = 1

\* the step is the tail of an entry run after placeLimit returned
EntryDone(r) == run[r].pc = "place" /\ resp'.why = "entry"
\* the step is the tail of a ZONE_EXIT run after its sleep
ExitDone(r) == run[r].pc = "sleep" /\ run[r].alert = "ZONE_EXIT" /\ resp'.why = "exit"

\* C29: in part_004 the cooldown state changes at two points only.  The
\* tail of an entry run, after placeLimit returned, writes lastEntryTime and
\* lastEntrySide; the tail of a ZONE_EXIT run whose close succeeded sets
\* lastEntrySide to null; both while the writing run holds the gate.  Every
\* other step, hence every run that ends skipped, with 'close failed' or in
\* the catch, leaves both as they were.
C29_CooldownWrittenTwice ==
    [][\A r \in Reqs :
         (variant = "part_004" /\ InFlight \subseteq {r}) =>
            IF EntryDone(r)
            THEN /\ processing /\ InFlight = {r}
                 /\ lastEntryTime' = now
                 /\ lastEntrySide' = run[r].side
            ELSE IF ExitDone(r)
            THEN /\ processing /\ InFlight = {r}
                 /\ ~Has(resp'.calls, NoFill)
                 /\ lastEntryTime' = lastEntryTime
                 /\ lastEntrySide' = NULL
            ELSE /\ UNCHANGED <<lastEntryTime, lastEntrySide>>
                 /\ resp'.body \in {"skipped", "close failed", "error", "none"}]_vars

\* a ZONE_EXIT that closed a position was answered ok and cleared the side
\* an earlier entry had written
C29_Witness ==
    /\ variant = "part_004"
    /\ resp.why = "exit"
    /\ Has(resp.calls, "POST market")
    /\ lastEntrySide = NULL
    /\ lastEntryTime >= StartTime
    /\ ~processing

----------------------------------------------------------------------------
(* Further properties of the first handler of src/unnamed/part_003 *)

\* C30: in the first handler of part_003 an entry that found an open
\* position and whose closeAllSafe succeeded records lastCloseTime when its
\* sleep is over and is then skipped by the second cooldown check: it never
\* calls placeLimit, and no run that took the closing branch is ever at
\* placeLimit.
C30_NoPlaceAfterClose ==
    [][\A r \in Reqs :
         /\ (variant = "part_003" /\ run'[r].pc = "place") => ~run'[r].rev
         /\ (/\ variant = "part_003"
             /\ run[r].pc = "sleep"
             /\ IsLimit(run[r].alert)
             /\ run'[r].pc # "sleep")
            => (/\ run[r].rev
                /\ lastCloseTime' = now
                /\ resp'.body = "skipped"
                /\ resp'.why = "cooldown after close"
                /\ ~Has(resp'.calls, "POST limit")
                /\ pending' = pending)]_vars

\* an entry closed the open position with a market order, recorded
\* lastCloseTime and was skipped; nothing rests at the venue
C30_Witness ==
    /\ variant = "part_003"
    /\ resp.why = "cooldown after close"
    /\ Has(resp.calls, "POST market")
    /\ ~Has(resp.calls, NoFill)
    /\ lastCloseTime = now
    /\ position = [s \in Symbols |-> 0]
    /\ pending = {}

\* C31: in the first handler of part_003 every ZONE_EXIT answered ok
\* records lastCloseTime, whether it sent a close order or found nothing to
\* close; and an entry that passes the gate less than COOLDOWN_MS after the
\* recorded time is skipped for cooldown.
C31_ExitStartsCooldown ==
    [][/\ (variant = "part_003" /\ resp'.why = "exit")
          => (resp'.body = "ok" /\ lastCloseTime' = now)
       /\ \A r \in Reqs, p \in Payloads :
            (/\ Arrive_part_003(r, p) /\ ~processing /\ IsEntry(p)
             /\ now - lastCloseTime < COOLDOWN_MS)
            => (resp'.body = "skipped" /\ resp'.why = "cooldown" /\ run' = run)]_vars

\* a ZONE_EXIT found no position, sent no close order, was answered ok and
\* recorded lastCloseTime
C31_Witness ==
    /\ variant = "part_003"
    /\ resp.why = "exit"
    /\ resp.calls = <<"GET pendingOrders", "GET openPositions">>
    /\ lastCloseTime = now

-----------------------------------------------------------------------------
(* The side of the cooldown of src/unnamed/part_004 *)

\* C32: in part_004 the cooldown blocks only an entry of the remembered
\* side.  An entry that passes the gate with the other side is never skipped
\* for cooldown, however recent the previous entry, and goes on to cancelAll;
\* an entry of the remembered side within COOLDOWN_MS is skipped; and an
\* entry whose placeLimit returned replaces the remembered side by its own,
\* so that from then on cooldownActive holds of that side alone.
C32_CooldownOfOneSide ==
    [][/\ \A sd \in Sides :
            cooldownActive(sd) => (sd = lastEntrySide /\ now - lastEntryTime < COOLDOWN_MS)
       /\ \A r \in Reqs, p \in Payloads :
            (Arrive(r, p) /\ ~processing /\ IsEntry(p)) =>
               IF lastEntrySide # NULL /\ sideOf(p.alert) # lastEntrySide
               THEN resp'.body # "skipped" /\ run'[r].pc = "cancel_list"
               ELSE IF lastEntrySide # NULL /\ now - lastEntryTime < COOLDOWN_MS
               THEN resp'.body = "skipped" /\ resp'.why = "cooldown" /\ run' = run
               ELSE run'[r].pc = "cancel_list"
       /\ \A r \in Reqs :
            (variant = "part_004" /\ EntryDone(r)) =>
               /\ lastEntrySide' = run[r].side
               /\ \A sd \in Sides : sd # run[r].side => ~cooldownActive(sd)']_vars

\* an entry of the other side was let in while the cooldown of the previous
\* entry was still running
C32_Witness ==
    /\ variant = "part_004"
    /\ \E r \in Reqs :
         /\ run[r].pc = "cancel_list"
         /\ run[r].side \in Sides
         /\ lastEntrySide \in Sides
         /\ run[r].side # lastEntrySide
         /\ now - lastEntryTime < COOLDOWN_MS

-----------------------------------------------------------------------------
(* Properties of the limit-only handler of src/server.js *)

\* the step ends the entry run r after its placeLimit returned
EntryDone_limit(r) == run[r].pc = "limit_place" /\ resp'.why = "entry"

\* C33: in the limit-only handler an EXIT delivered less than
\* EXIT_COOLDOWN_MS after the time of the last completed entry on its symbol
\* (lastEntryTime[symbol], the `now` that entry took when it was received)
\* is skipped without a broker call; any other EXIT, later or on a symbol
\* without such an entry, calls closePosition, and its run ends with that
\* one call and nothing else.  The time of an earlier EXIT plays no part:
\* only a completed entry writes lastEntryTime.
C33_ExitCooldown ==
    [][/\ \A r \in Reqs, p \in PayloadsLimit :
            (Arrive_limit(r, p) /\ p.parses /\ p.alert = "EXIT") =>
               IF now - lastEntryTime[p.symbol] < EXIT_COOLDOWN_MS
               THEN /\ resp'.body = "skipped" /\ resp'.why = "entry cooldown"
                    /\ resp'.calls = <<>>
                    /\ run' = run
               ELSE run'[r] = [Idle EXCEPT !.pc = "limit_exit_close", !.alert = "EXIT",
                                           !.symbol = p.symbol, !.wake = now]
       /\ \A r \in Reqs :
            (variant = "server.js:187" /\ run[r].pc = "limit_exit_close" /\ run'[r] # run[r])
            => (/\ run'[r] = Idle
                /\ Count(resp'.calls, "PUT close") = 1
                /\ Count(resp'.calls, "POST limit") = 0
                /\ resp'.body \in {"ok", "error"})
       /\ (variant = "server.js:187" /\ lastEntryTime' # lastEntryTime)
            => \E r \in Reqs :
                 /\ EntryDone_limit(r)
                 /\ lastEntryTime' = [lastEntryTime EXCEPT ![run[r].symbol] = run[r].wake]]_vars

\* an EXIT for a symbol was skipped right after an entry on it, while an
\* EXIT for the other symbol is at its closePosition call
C33_Witness ==
    /\ variant = "server.js:187"
    /\ resp.why = "entry cooldown"
    /\ now - lastEntryTime["USD_JPY"] < EXIT_COOLDOWN_MS
    /\ \E r \in Reqs : run[r].pc = "limit_exit_close" /\ run[r].symbol = "EUR_USD"

\* C34: in the limit-only handler every entry calls closePosition before
\* placeLimit, and a closePosition answered with a non-2xx status ends the
\* entry there: placeLimit is not called in that request, and
\* lastOrderTime and lastEntryTime stay as they were.
C34_NoPlaceAfterFailedClose ==
    [][\A r \in Reqs :
         variant = "server.js:187" =>
            /\ (run'[r].pc = "limit_place" /\ run[r].pc # "limit_place")
               => run[r].pc = "limit_close"
            /\ (run[r].pc = "limit_close" /\ run'[r].read = "failed")
               => (/\ run'[r].pc # "limit_place"
                   /\ UNCHANGED <<lastOrderTime, lastEntryTime>>)
            /\ (run[r].pc = "limit_place" /\ run[r].read = "failed")
               => (/\ ~Has(resp'.calls, "POST limit")
                   /\ UNCHANGED <<lastOrderTime, lastEntryTime>>)]_vars

-----------------------------------------------------------------------------
(* closeAllSafe of src/unnamed/part_004 *)

\* C35: closeAllSafe of part_004.  When the listing it reads has no entry
\* for the symbol (or both sides at zero) it sends no order and returns
\* true: the run goes on to its sleep.  When the listing shows long units
\* > 0 or short units < 0 it sends one market order of the negated units,
\* and it returns true exactly when that order's answer carried a fill:
\* the run then sleeps with the position changed by those units, and
\* otherwise ends with 'close failed', the missing fill noted and the
\* position as it was.
C35_CloseAllSafe ==
    [][/\ \A s \in Symbols :
            LET pos == getPosition(fetchJSON([status |-> 200, json |-> TRUE,
                                              body |-> OpenPositionsBody]), s)
            IN  IF position[s] = 0
                THEN pos.null /\ unitsToCloseOf(PosNull) = 0
                ELSE ~pos.null /\ unitsToCloseOf(pos) = 0 - position[s]
       /\ \A r \in Reqs :
            (variant = "part_004" /\ run[r].pc = "close_read" /\ run'[r] # run[r]) =>
               LET s == run[r].symbol
               IN  \/ /\ run'[r].pc = "close_post"          \* the order is sent
                      /\ position[s] # 0
                      /\ run'[r].units = 0 - position[s]
                      /\ calls' = Append(calls, "POST market")
                      /\ Count(calls', "POST market") = 1
                   \/ /\ run'[r].pc = "sleep"               \* no order, true
                      /\ calls' = calls
                      /\ ~Has(calls, "POST market")
                   \/ /\ run'[r] = Idle                     \* the read threw
                      /\ resp'.body = "error"
                      /\ ~Has(resp'.calls, "POST market")
       /\ \A r \in Reqs :
            (variant = "part_004" /\ run[r].pc = "close_read" /\ position[run[r].symbol] = 0)
            => run'[r].pc # "close_post"
       /\ \A r \in Reqs :
            (variant = "part_004" /\ run[r].pc = "close_post" /\ run'[r] # run[r]) =>
               LET s == run[r].symbol
               IN  \/ /\ run'[r].pc = "sleep"               \* filled: true
                      /\ position' = Filled(s, run[r].units)
                      /\ calls' = calls
                   \/ /\ run'[r] = Idle                     \* no fill: false
                      /\ resp'.body = "close failed"
                      /\ resp'.calls = Append(calls, NoFill)
                      /\ Count(resp'.calls, "POST market") = 1
                      /\ position' = position
                   \/ /\ run'[r] = Idle                     \* the order's fetch threw
                      /\ resp'.body = "error"]_vars

\* closeAllSafe read a short position and has sent the market order that
\* buys it back
C35_Witness ==
    /\ variant = "part_004"
    /\ \E r \in Reqs :
         /\ run[r].pc = "close_post"
         /\ position[run[r].symbol] < 0
         /\ run[r].units = 0 - position[run[r].symbol]
         /\ Count(calls, "POST market") = 1

====
